---- MODULE Spec2Model ----
(***************************************************************************)
(* Model of the two hand-written algorithms of the repository:             *)
(*   - the CIDR subnet derivation of src/modules/networking/index.ts       *)
(*     (parseCidr, intToIp, determineSubnetPrefix, deriveSubnetCidr), and  *)
(*   - the constrained name construction of src/modules/compute/index.ts   *)
(*     (sanitizeSegment, ensureValidStart, shrinkWithHash, buildName).     *)
(* Both are pure functions: a state is one call, its arguments and, once   *)
(* the call has been made, what it returned or threw.                      *)
(*                                                                         *)
(* The component constructors (Networking, Database, LambdaFunction,       *)
(* AppRunnerService, GitHubActionsRole) are calls too: they return the     *)
(* object they built or throw, and leave in `resources` what they          *)
(* registered with the Pulumi engine before that.                          *)
(*                                                                         *)
(* JavaScript strings are TLA+ strings; JavaScript numbers are exact       *)
(* integers here. Addresses need 33 bits, more than a TLC integer holds,   *)
(* so address arithmetic is done on two 16-bit limbs <<hi, lo>>.           *)
(***************************************************************************)
EXTENDS Integers, Sequences, FiniteSets, TLC

VARIABLES call, args, pc, result, resources

vars == <<call, args, pc, result, resources>>

(***************************************************************************)
(* Outcomes of a call: a returned value or a thrown pulumi.RunError.       *)
(***************************************************************************)
Return(v) == [threw |-> FALSE, value |-> v]

Throw(message) == [threw |-> TRUE, error |-> message]

NotCalled == [threw |-> FALSE, value |-> "not called"]

(***************************************************************************)
(* JavaScript string primitives.                                           *)
(***************************************************************************)
CharAt(s, i) == SubSeq(s, i, i)

Min(a, b) == IF a < b THEN a ELSE b

Max(a, b) == IF a > b THEN a ELSE b

\* String.prototype.slice(start, end) with JavaScript's index rules: a
\* negative index counts from the end, indices are clamped to 0..length.
\* Positions are 0-based as in JavaScript.
SliceIndex(s, i) == IF i < 0 THEN Max(Len(s) + i, 0) ELSE Min(i, Len(s))

Slice(s, start, end) ==
    LET from == SliceIndex(s, start)
        to == SliceIndex(s, end)
    IN IF from >= to THEN "" ELSE SubSeq(s, from + 1, to)

\* String.prototype.slice(start): to the end of the string.
SliceFrom(s, start) == SubSeq(s, SliceIndex(s, start) + 1, Len(s))

\* The concatenation of the strings pieces[lo], ..., pieces[hi].
RECURSIVE ConcatRange(_, _, _)
ConcatRange(pieces, lo, hi) ==
    IF lo > hi THEN ""
    ELSE IF lo = hi THEN pieces[lo]
    ELSE LET mid == (lo + hi) \div 2
         IN ConcatRange(pieces, lo, mid) \o ConcatRange(pieces, mid + 1, hi)

Concat(pieces) == ConcatRange(pieces, 1, Len(pieces))

\* String.prototype.split(separator) for a one-character separator: the
\* pieces between consecutive separators, the ends of the string included.
Split(s, sep) ==
    LET at == {i \in 1..Len(s) : CharAt(s, i) = sep}
        \* the position of the k-th separator; 0 and Len(s) + 1 bound the string
        pos(k) == IF k = 0 THEN 0
                  ELSE IF k > Cardinality(at) THEN Len(s) + 1
                  ELSE CHOOSE i \in at : Cardinality({j \in at : j < i}) = k - 1
    IN [k \in 1..(Cardinality(at) + 1) |-> SubSeq(s, pos(k - 1) + 1, pos(k) - 1)]

\* Array.prototype.join(separator).
Join(parts, sep) ==
    Concat([k \in 1..Len(parts) |-> IF k = 1 THEN parts[k] ELSE sep \o parts[k]])

DecimalDigits == "0123456789"

IsDigit(c) == \E d \in 1..10 : CharAt(DecimalDigits, d) = c

DigitValue(c) == (CHOOSE d \in 1..10 : CharAt(DecimalDigits, d) = c) - 1

AllDigits(s) == \A i \in 1..Len(s) : IsDigit(CharAt(s, i))

RECURSIVE DecimalValue(_)
DecimalValue(s) ==
    IF Len(s) = 0 THEN 0
    ELSE 10 * DecimalValue(SubSeq(s, 1, Len(s) - 1)) + DigitValue(CharAt(s, Len(s)))

\* Number(text) on the texts the model feeds it: the empty string is 0, an
\* optionally signed run of decimal digits is its value, any other text over
\* digits, letters and signs is NaN. A number is [nan, value]; value is
\* meaningless when nan is TRUE.
NaN == [nan |-> TRUE, value |-> 0]

Num(n) == [nan |-> FALSE, value |-> n]

Number(text) ==
    IF text = "" THEN Num(0)
    ELSE IF AllDigits(text) THEN Num(DecimalValue(text))
    ELSE IF CharAt(text, 1) = "-" /\ Len(text) > 1 /\ AllDigits(Tail(text))
        THEN Num(0 - DecimalValue(Tail(text)))
    ELSE IF CharAt(text, 1) = "+" /\ Len(text) > 1 /\ AllDigits(Tail(text))
        THEN Num(DecimalValue(Tail(text)))
    ELSE NaN

\* Number.isInteger(number).
IsInteger(number) == ~number.nan

\* The decimal text a template literal or join gives an integer.
RECURSIVE ToDecimal(_)
ToDecimal(n) ==
    IF n < 0 THEN "-" \o ToDecimal(0 - n)
    ELSE IF n < 10 THEN CharAt(DecimalDigits, n + 1)
    ELSE ToDecimal(n \div 10) \o CharAt(DecimalDigits, (n % 10) + 1)

(***************************************************************************)
(* Exact arithmetic on address-sized numbers. A number w is <<hi, lo>>,    *)
(* worth hi * 2^16 + lo with 0 <= lo < 2^16; hi is negative for a negative *)
(* number.                                                                 *)
(***************************************************************************)
Radix == 2 ^ 16

WNorm(hi, lo) == <<hi + (lo \div Radix), lo % Radix>>

Wide(n) == WNorm(0, n)

WAdd(a, b) == WNorm(a[1] + b[1], a[2] + b[2])

WLess(a, b) == a[1] < b[1] \/ (a[1] = b[1] /\ a[2] < b[2])

WGeq(a, b) == ~WLess(a, b)

\* 2 ** k.
WPow2(k) == IF k < 16 THEN <<0, 2 ^ k>> ELSE <<2 ^ (k - 16), 0>>

Log2(w) == CHOOSE k \in 0..32 : WPow2(k) = w

RECURSIVE WShiftLeft(_, _)
WShiftLeft(w, k) ==
    IF k >= 16 THEN WShiftLeft(<<w[1] * Radix + w[2], 0>>, k - 16)
    ELSE WNorm(w[1] * (2 ^ k), w[2] * (2 ^ k))

RECURSIVE WShiftRight(_, _)
WShiftRight(w, k) ==
    IF k >= 16 THEN WShiftRight(WNorm(0, w[1]), k - 16)
    ELSE <<w[1] \div (2 ^ k), (w[1] % (2 ^ k)) * (2 ^ (16 - k)) + (w[2] \div (2 ^ k))>>

\* a * p and Math.floor(a / p) for p a power of two, the only multipliers and
\* divisors of the address arithmetic.
WTimes(a, p) == WShiftLeft(a, Log2(p))

WFloorDiv(a, p) == WShiftRight(a, Log2(p))

\* 0 - w.
WNeg(w) == WNorm(0 - w[1], 0 - w[2])

\* w % 256: the remainder has the sign of w.
WMod256(w) == IF w[1] < 0 THEN 0 - (WNeg(w)[2] % 256) ELSE w[2] % 256

(***************************************************************************)
(* src/modules/networking/index.ts                                         *)
(***************************************************************************)
PREFERRED_SUBNET_PREFIX == 26

MAX_SUBNET_PREFIX == 28

\* The check the map callback makes on one octet text.
OctetRejected(segment) ==
    LET value == Number(segment)
    IN ~IsInteger(value) \/ value.value < 0 \/ value.value > 255

\* parseCidr with the weights of the second and third octets exchanged.
parseCidr_SwappedWeights(cidr) ==
    LET parts == Split(cidr, "/")
        network == parts[1]
        hasPrefixPart == Len(parts) >= 2
        prefixPart == IF hasPrefixPart THEN parts[2] ELSE ""
        segments == Split(network, ".")
        octets == [k \in 1..Len(segments) |-> Number(segments[k]).value]
        prefix == Number(prefixPart)
        baseIp == WAdd(WAdd(WTimes(Wide(octets[1]), WPow2(24)),
                            WTimes(Wide(octets[3]), WPow2(16))),
                       WAdd(WTimes(Wide(octets[2]), WPow2(8)), Wide(octets[4])))
    IN IF network = "" \/ ~hasPrefixPart \/ prefixPart = ""
           THEN Throw("Invalid CIDR block")
       ELSE IF \E k \in 1..Len(segments) : OctetRejected(segments[k])
           THEN Throw("Invalid IPv4 address in CIDR block")
       ELSE IF Len(octets) # 4
           THEN Throw("CIDR block must contain four octets")
       ELSE IF ~IsInteger(prefix) \/ prefix.value < 0 \/ prefix.value > 32
           THEN Throw("CIDR prefix must be between 0 and 32")
       ELSE Return([baseIp |-> baseIp, prefix |-> prefix.value])

parseCidr(cidr) ==
    LET parts == Split(cidr, "/")
        network == parts[1]
        hasPrefixPart == Len(parts) >= 2
        prefixPart == IF hasPrefixPart THEN parts[2] ELSE ""
        segments == Split(network, ".")
        octets == [k \in 1..Len(segments) |-> Number(segments[k]).value]
        prefix == Number(prefixPart)
        baseIp == WAdd(WAdd(WTimes(Wide(octets[1]), WPow2(24)),
                            WTimes(Wide(octets[2]), WPow2(16))),
                       WAdd(WTimes(Wide(octets[3]), WPow2(8)), Wide(octets[4])))
    IN IF network = "" \/ ~hasPrefixPart \/ prefixPart = ""
           THEN Throw("Invalid CIDR block")
       ELSE IF \E k \in 1..Len(segments) : OctetRejected(segments[k])
           THEN Throw("Invalid IPv4 address in CIDR block")
       ELSE IF Len(octets) # 4
           THEN Throw("CIDR block must contain four octets")
       ELSE IF ~IsInteger(prefix) \/ prefix.value < 0 \/ prefix.value > 32
           THEN Throw("CIDR prefix must be between 0 and 32")
       ELSE Return([baseIp |-> baseIp, prefix |-> prefix.value])
\* intToIp with the divisor of the second octet repeated for the third.
intToIp_RepeatedDivisor(value) ==
    Join(<<ToDecimal(WMod256(WFloorDiv(value, WPow2(24)))),
           ToDecimal(WMod256(WFloorDiv(value, WPow2(16)))),
           ToDecimal(WMod256(WFloorDiv(value, WPow2(16)))),
           ToDecimal(WMod256(value))>>, ".")

intToIp(value) ==
    Join(<<ToDecimal(WMod256(WFloorDiv(value, WPow2(24)))),
           ToDecimal(WMod256(WFloorDiv(value, WPow2(16)))),
           ToDecimal(WMod256(WFloorDiv(value, WPow2(8)))),
           ToDecimal(WMod256(value))>>, ".")

\* The text of part / 2^bits, 0 < part < 2^bits, after the decimal point:
\* the digits of part * 5^bits in bits places, without the zeros at the end.
RECURSIVE FractionDigits(_, _)
FractionDigits(part, bits) ==
    IF part = 0 THEN ""
    ELSE CharAt(DecimalDigits, ((part * 10) \div (2 ^ bits)) + 1)
             \o FractionDigits((part * 10) % (2 ^ bits), bits)

\* intToIp of the number scaled / 2^bits, which is not an integer when
\* deriveSubnetCidr is given a subnet prefix above 32: the first three octets
\* are floored, the last one is value % 256 with its fraction.
intToIpOfFraction(scaled, bits) ==
    LET magnitude == (IF scaled[1] < 0 THEN WNeg(scaled) ELSE scaled)[2] % (256 * (2 ^ bits))
        last == (IF scaled[1] < 0 /\ magnitude # 0 THEN "-" ELSE "")
                    \o ToDecimal(magnitude \div (2 ^ bits))
                    \o (IF magnitude % (2 ^ bits) = 0 THEN ""
                        ELSE "." \o FractionDigits(magnitude % (2 ^ bits), bits))
    IN Join(<<ToDecimal(WMod256(WShiftRight(scaled, 24 + bits))),
              ToDecimal(WMod256(WShiftRight(scaled, 16 + bits))),
              ToDecimal(WMod256(WShiftRight(scaled, 8 + bits))),
              last>>, ".")

\* Math.ceil(Math.log2(n)) for an integer n >= 1.
CeilLog2(n) == CHOOSE k \in 0..30 : 2 ^ k >= n /\ (k = 0 \/ 2 ^ (k - 1) < n)
\* determineSubnetPrefix rounding the bit count down instead of up.
determineSubnetPrefix_FloorLog2(basePrefix, subnetCount) ==
    LET minimumAdditionalBits == CHOOSE k \in 0..30 :
                                     2 ^ k <= subnetCount /\ subnetCount < 2 ^ (k + 1)
        minimumPrefix == basePrefix + minimumAdditionalBits
        preferredPrefix == Max(PREFERRED_SUBNET_PREFIX, basePrefix)
        subnetPrefix == Max(preferredPrefix, minimumPrefix)
    IN IF subnetPrefix > MAX_SUBNET_PREFIX
           THEN Throw("Cannot create subnets from CIDR")
       ELSE Return(subnetPrefix)

\* determineSubnetPrefix without the preferred /26.
determineSubnetPrefix_NoPreferred(basePrefix, subnetCount) ==
    LET minimumAdditionalBits == CeilLog2(subnetCount)
        minimumPrefix == basePrefix + minimumAdditionalBits
        subnetPrefix == Max(basePrefix, minimumPrefix)
    IN IF subnetPrefix > MAX_SUBNET_PREFIX
           THEN Throw("Cannot create subnets from CIDR")
       ELSE Return(subnetPrefix)

\* Math.log2(0) is -Infinity, which Math.max discards; Math.log2 of a
\* negative count is NaN, which Math.max returns and no comparison rejects.
determineSubnetPrefix(basePrefix, subnetCount) ==
    LET minimumAdditionalBits == CeilLog2(subnetCount)
        minimumPrefix == basePrefix + minimumAdditionalBits
        preferredPrefix == Max(PREFERRED_SUBNET_PREFIX, basePrefix)
        subnetPrefix == IF subnetCount = 0 THEN preferredPrefix
                        ELSE Max(preferredPrefix, minimumPrefix)
    IN IF subnetCount < 0 THEN Return(NaN)
       ELSE IF subnetPrefix > MAX_SUBNET_PREFIX
           THEN Throw("Cannot create subnets from CIDR")
       ELSE Return(subnetPrefix)
\* deriveSubnetCidr counting from the address as written, not from the
\* network address.
deriveSubnetCidr_NoAlignment(baseCidr, subnetPrefix, subnetIndex) ==
    LET parsed == parseCidr(baseCidr)
        baseIp == parsed.value.baseIp
        basePrefix == parsed.value.prefix
        subnetSize == WPow2(32 - subnetPrefix)
        availableSubnets == WPow2(subnetPrefix - basePrefix)
        subnetBase == WAdd(baseIp, WTimes(subnetIndex, subnetSize))
    IN IF parsed.threw THEN parsed
       ELSE IF subnetPrefix < basePrefix
           THEN Throw("Subnet prefix cannot be smaller than VPC prefix")
       ELSE IF WGeq(subnetIndex, availableSubnets)
           THEN Throw("CIDR does not have capacity for subnet index")
       ELSE Return(intToIp(subnetBase) \o "/" \o ToDecimal(subnetPrefix))

\* deriveSubnetCidr with the capacity check off by one (> for >=).
deriveSubnetCidr_CapacityOffByOne(baseCidr, subnetPrefix, subnetIndex) ==
    LET parsed == parseCidr(baseCidr)
        baseIp == parsed.value.baseIp
        basePrefix == parsed.value.prefix
        subnetSize == WPow2(32 - subnetPrefix)
        baseNetwork == WTimes(WFloorDiv(baseIp, WPow2(32 - basePrefix)),
                              WPow2(32 - basePrefix))
        availableSubnets == WPow2(subnetPrefix - basePrefix)
        subnetBase == WAdd(baseNetwork, WTimes(subnetIndex, subnetSize))
    IN IF parsed.threw THEN parsed
       ELSE IF subnetPrefix < basePrefix
           THEN Throw("Subnet prefix cannot be smaller than VPC prefix")
       ELSE IF WLess(availableSubnets, subnetIndex)
           THEN Throw("CIDR does not have capacity for subnet index")
       ELSE Return(intToIp(subnetBase) \o "/" \o ToDecimal(subnetPrefix))

\* deriveSubnetCidr counting from the base address cut to a multiple of the
\* subnet size, not of the size of the base block.
deriveSubnetCidr_AlignedToSubnet(baseCidr, subnetPrefix, subnetIndex) ==
    LET parsed == parseCidr(baseCidr)
        baseIp == parsed.value.baseIp
        basePrefix == parsed.value.prefix
        subnetSize == WPow2(32 - subnetPrefix)
        baseNetwork == WTimes(WFloorDiv(baseIp, WPow2(32 - subnetPrefix)),
                              WPow2(32 - subnetPrefix))
        availableSubnets == WPow2(subnetPrefix - basePrefix)
        subnetBase == WAdd(baseNetwork, WTimes(subnetIndex, subnetSize))
        scaledBase == WAdd(WShiftLeft(baseNetwork, subnetPrefix - 32), subnetIndex)
    IN IF parsed.threw THEN parsed
       ELSE IF subnetPrefix < basePrefix
           THEN Throw("Subnet prefix cannot be smaller than VPC prefix")
       ELSE IF WGeq(subnetIndex, availableSubnets)
           THEN Throw("CIDR does not have capacity for subnet index")
       ELSE IF subnetPrefix > 32
           THEN Return(intToIpOfFraction(scaledBase, subnetPrefix - 32)
                           \o "/" \o ToDecimal(subnetPrefix))
       ELSE Return(intToIp(subnetBase) \o "/" \o ToDecimal(subnetPrefix))

\* subnetIndex is an address-sized number, negative or not, subnetPrefix an
\* integer. With subnetPrefix above 32 the subnet size 2 ** (32 - subnetPrefix)
\* is a fraction, and so may be the subnet base: it is then held scaled by
\* 2 ** (subnetPrefix - 32).
deriveSubnetCidr(baseCidr, subnetPrefix, subnetIndex) ==
    LET parsed == parseCidr(baseCidr)
        baseIp == parsed.value.baseIp
        basePrefix == parsed.value.prefix
        subnetSize == WPow2(32 - subnetPrefix)
        baseNetwork == WTimes(WFloorDiv(baseIp, WPow2(32 - basePrefix)),
                              WPow2(32 - basePrefix))
        availableSubnets == WPow2(subnetPrefix - basePrefix)
        subnetBase == WAdd(baseNetwork, WTimes(subnetIndex, subnetSize))
        scaledBase == WAdd(WShiftLeft(baseNetwork, subnetPrefix - 32), subnetIndex)
    IN IF parsed.threw THEN parsed
       ELSE IF subnetPrefix < basePrefix
           THEN Throw("Subnet prefix cannot be smaller than VPC prefix")
       ELSE IF WGeq(subnetIndex, availableSubnets)
           THEN Throw("CIDR does not have capacity for subnet index")
       ELSE IF subnetPrefix > 32
           THEN Return(intToIpOfFraction(scaledBase, subnetPrefix - 32)
                           \o "/" \o ToDecimal(subnetPrefix))
       ELSE Return(intToIp(subnetBase) \o "/" \o ToDecimal(subnetPrefix))

\* The subnet layout as the Networking constructor and the unit test compute
\* it: the prefix from determineSubnetPrefix, then one deriveSubnetCidr per
\* index 0..subnetCount-1, stopping at the first call that throws.
RECURSIVE DeriveEach(_, _, _, _)
DeriveEach(baseCidr, subnetPrefix, subnetCount, i) ==
    IF i >= subnetCount THEN Return(<<>>)
    ELSE LET block == deriveSubnetCidr(baseCidr, subnetPrefix, Wide(i))
             rest == DeriveEach(baseCidr, subnetPrefix, subnetCount, i + 1)
         IN IF block.threw THEN block
            ELSE IF rest.threw THEN rest
            ELSE Return(<<block.value>> \o rest.value)

subnetPlan(baseCidr, subnetCount) ==
    LET parsed == parseCidr(baseCidr)
        sized == determineSubnetPrefix(parsed.value.prefix, subnetCount)
    IN IF parsed.threw THEN parsed
       ELSE IF sized.threw THEN sized
       ELSE DeriveEach(baseCidr, sized.value, subnetCount, 0)

(***************************************************************************)
(* src/modules/compute/index.ts                                            *)
(***************************************************************************)
MIN_NAME_LENGTH == 4

DEFAULT_BASE_SEGMENT == "apprunner"

FALLBACK_SEGMENT == "app0"

AlnumChars == "ABCDEFGHIJKLMNOPQRSTUVWXYZabcdefghijklmnopqrstuvwxyz0123456789"

\* [A-Za-z0-9]
Alnum == {CharAt(AlnumChars, i) : i \in 1..Len(AlnumChars)}

\* [-_]
Separators == {"-", "_"}

\* value.replace(/[^A-Za-z0-9-_]/g, "-")
ReplaceInvalid(value) ==
    Concat([i \in 1..Len(value) |->
               IF CharAt(value, i) \in Alnum \cup Separators THEN CharAt(value, i)
               ELSE "-"])

\* value.replace(/[-_]{2,}/g, "-"): a maximal run of two or more separators
\* becomes one hyphen, a lone separator stays as it is.
CollapseRuns(value) ==
    LET isSep(i) == i >= 1 /\ i <= Len(value) /\ CharAt(value, i) \in Separators
    IN Concat([i \in 1..Len(value) |->
                  IF isSep(i) /\ isSep(i - 1) THEN ""
                  ELSE IF isSep(i) /\ isSep(i + 1) THEN "-"
                  ELSE CharAt(value, i)])

\* The length of the longest prefix of value made of characters of chars.
LeadingRun(value, chars) ==
    CHOOSE n \in 0..Len(value) :
        /\ \A i \in 1..n : CharAt(value, i) \in chars
        /\ (n = Len(value) \/ CharAt(value, n + 1) \notin chars)

\* The length of the longest suffix of value made of characters of chars.
TrailingRun(value, chars) ==
    CHOOSE n \in 0..Len(value) :
        /\ \A i \in (Len(value) - n + 1)..Len(value) : CharAt(value, i) \in chars
        /\ (n = Len(value) \/ CharAt(value, Len(value) - n) \notin chars)

\* value.replace(/^-+/, "")
StripLeadingHyphens(value) ==
    SubSeq(value, LeadingRun(value, {"-"}) + 1, Len(value))

\* value.replace(/-+$/, "")
StripTrailingHyphens(value) ==
    SubSeq(value, 1, Len(value) - TrailingRun(value, {"-"}))
\* sanitizeSegment without the collapsing of separator runs.
sanitizeSegment_NoCollapse(value) ==
    StripTrailingHyphens(StripLeadingHyphens(ReplaceInvalid(value)))

sanitizeSegment(value) ==
    StripTrailingHyphens(StripLeadingHyphens(CollapseRuns(ReplaceInvalid(value))))

\* value.replace(/^[^A-Za-z0-9]+/, "")
StripLeadingNonAlnum(value) ==
    LET nonAlnum == {CharAt(value, i) : i \in 1..Len(value)} \ Alnum
    IN SubSeq(value, LeadingRun(value, nonAlnum) + 1, Len(value))

ensureValidStart(value) ==
    LET trimmed == StripLeadingNonAlnum(value)
    IN IF trimmed = "" THEN FALLBACK_SEGMENT ELSE trimmed

\* crypto.createHash("sha1").update(value).digest("hex"), of which the code
\* reads at most the first six characters: a fixed function of the text that
\* yields lower-case hexadecimal digits. SHA-1 itself is not computed; the
\* digits are those of a position-weighted checksum of the character codes
\* (odd weights, so texts that differ in one character differ in every digit
\* count the code uses).
HexDigits == "0123456789abcdef"

\* The characters a hashed text may hold: those of a sanitized segment, then
\* the invalid characters of the bases the model builds names from.
HashedChars == AlnumChars \o "-_./"

CharCode(c) == CHOOSE i \in 1..Len(HashedChars) : CharAt(HashedChars, i) = c

RECURSIVE SumRange(_, _, _)
SumRange(terms, lo, hi) ==
    IF lo > hi THEN 0
    ELSE IF lo = hi THEN terms[lo]
    ELSE LET mid == (lo + hi) \div 2
         IN SumRange(terms, lo, mid) + SumRange(terms, mid + 1, hi)

Checksum(value) ==
    LET terms == [i \in 1..Len(value) |->
                     CharCode(CharAt(value, i)) * (2 * i * (i + 40) + 1)]
    IN (SumRange(terms, 1, Len(value)) + 1000003 * Len(value)) % (2 ^ 24)

RECURSIVE HexOf(_, _)
HexOf(n, digits) ==
    IF digits = 0 THEN ""
    ELSE CharAt(HexDigits, (n % 16) + 1) \o HexOf(n \div 16, digits - 1)

sha1Hex(value) == HexOf(Checksum(value), 6)

\* shrinkWithHash leaving no room for the hyphen before the hash.
shrinkWithHash_NoHyphenRoom(value, maxLength) ==
    LET hashLength == Min(6, Max(2, maxLength - 2))
        prefixLength == Max(1, maxLength - hashLength)
        hash == Slice(sha1Hex(value), 0, hashLength)
        prefix == StripTrailingHyphens(Slice(value, 0, prefixLength))
        safePrefix == IF prefix = "" THEN Slice(FALLBACK_SEGMENT, 0, prefixLength)
                      ELSE prefix
    IN IF Len(value) <= maxLength THEN value
       ELSE IF maxLength <= MIN_NAME_LENGTH THEN Slice(value, 0, maxLength)
       ELSE safePrefix \o "-" \o hash

\* shrinkWithHash shrinking a value that fits exactly (< for <=).
shrinkWithHash_StrictFit(value, maxLength) ==
    LET hashLength == Min(6, Max(2, maxLength - 2))
        prefixLength == Max(1, maxLength - hashLength - 1)
        hash == Slice(sha1Hex(value), 0, hashLength)
        prefix == StripTrailingHyphens(Slice(value, 0, prefixLength))
        safePrefix == IF prefix = "" THEN Slice(FALLBACK_SEGMENT, 0, prefixLength)
                      ELSE prefix
        combined == safePrefix \o "-" \o hash
    IN IF Len(value) < maxLength THEN value
       ELSE IF maxLength <= MIN_NAME_LENGTH THEN Slice(value, 0, maxLength)
       ELSE IF Len(combined) > maxLength THEN Slice(combined, 0, maxLength)
       ELSE combined

shrinkWithHash(value, maxLength) ==
    LET hashLength == Min(6, Max(2, maxLength - 2))
        prefixLength == Max(1, maxLength - hashLength - 1)
        hash == Slice(sha1Hex(value), 0, hashLength)
        prefix == StripTrailingHyphens(Slice(value, 0, prefixLength))
        safePrefix == IF prefix = "" THEN Slice(FALLBACK_SEGMENT, 0, prefixLength)
                      ELSE prefix
        combined == safePrefix \o "-" \o hash
    IN IF Len(value) <= maxLength THEN value
       ELSE IF maxLength <= MIN_NAME_LENGTH THEN Slice(value, 0, maxLength)
       ELSE IF Len(combined) > maxLength THEN Slice(combined, 0, maxLength)
       ELSE combined

\* The budget allocation keeping the head of a suffix that is too long.
allocateBudget_SuffixHead(baseSegment, suffixSegment, maxLength) ==
    LET hasSuffix == Len(suffixSegment) > 0
        firstBudget == maxLength - Len(suffixSegment) - 1
        suffixAllowance == Max(0, maxLength - MIN_NAME_LENGTH - 1)
        baseBudget == IF firstBudget >= MIN_NAME_LENGTH THEN firstBudget
                      ELSE IF suffixAllowance <= 0 THEN maxLength
                      ELSE MIN_NAME_LENGTH
        allowedSuffix == IF firstBudget >= MIN_NAME_LENGTH THEN suffixSegment
                         ELSE IF suffixAllowance <= 0 THEN ""
                         ELSE Slice(suffixSegment, 0, suffixAllowance)
        shrunkBase == shrinkWithHash(baseSegment, baseBudget)
        availableForSuffix == maxLength - Len(shrunkBase) - 1
    IN IF hasSuffix
           THEN [normalizedBase |-> shrunkBase,
                 normalizedSuffix |->
                     IF availableForSuffix <= 0 THEN ""
                     ELSE IF Len(allowedSuffix) > availableForSuffix
                         THEN Slice(allowedSuffix, 0, availableForSuffix)
                     ELSE allowedSuffix]
       ELSE [normalizedBase |-> shrinkWithHash(baseSegment, maxLength),
             normalizedSuffix |-> suffixSegment]

\* The budget allocation giving a base without suffix one character less
\* than maxLength.
allocateBudget_NoSuffixOneLess(baseSegment, suffixSegment, maxLength) ==
    LET hasSuffix == Len(suffixSegment) > 0
        firstBudget == maxLength - Len(suffixSegment) - 1
        suffixAllowance == Max(0, maxLength - MIN_NAME_LENGTH - 1)
        baseBudget == IF firstBudget >= MIN_NAME_LENGTH THEN firstBudget
                      ELSE IF suffixAllowance <= 0 THEN maxLength
                      ELSE MIN_NAME_LENGTH
        allowedSuffix == IF firstBudget >= MIN_NAME_LENGTH THEN suffixSegment
                         ELSE IF suffixAllowance <= 0 THEN ""
                         ELSE SliceFrom(suffixSegment, 0 - suffixAllowance)
        shrunkBase == shrinkWithHash(baseSegment, baseBudget)
        availableForSuffix == maxLength - Len(shrunkBase) - 1
    IN IF hasSuffix
           THEN [normalizedBase |-> shrunkBase,
                 normalizedSuffix |->
                     IF availableForSuffix <= 0 THEN ""
                     ELSE IF Len(allowedSuffix) > availableForSuffix
                         THEN SliceFrom(allowedSuffix, 0 - availableForSuffix)
                     ELSE allowedSuffix]
       ELSE [normalizedBase |-> shrinkWithHash(baseSegment, maxLength - 1),
             normalizedSuffix |-> suffixSegment]

\* Lines 45-74 of buildName: what is left of the base and of the suffix once
\* the length budget is shared out.
allocateBudget(baseSegment, suffixSegment, maxLength) ==
    LET hasSuffix == Len(suffixSegment) > 0
        firstBudget == maxLength - Len(suffixSegment) - 1
        suffixAllowance == Max(0, maxLength - MIN_NAME_LENGTH - 1)
        baseBudget == IF firstBudget >= MIN_NAME_LENGTH THEN firstBudget
                      ELSE IF suffixAllowance <= 0 THEN maxLength
                      ELSE MIN_NAME_LENGTH
        allowedSuffix == IF firstBudget >= MIN_NAME_LENGTH THEN suffixSegment
                         ELSE IF suffixAllowance <= 0 THEN ""
                         ELSE SliceFrom(suffixSegment, 0 - suffixAllowance)
        shrunkBase == shrinkWithHash(baseSegment, baseBudget)
        availableForSuffix == maxLength - Len(shrunkBase) - 1
    IN IF hasSuffix
           THEN [normalizedBase |-> shrunkBase,
                 normalizedSuffix |->
                     IF availableForSuffix <= 0 THEN ""
                     ELSE IF Len(allowedSuffix) > availableForSuffix
                         THEN SliceFrom(allowedSuffix, 0 - availableForSuffix)
                     ELSE allowedSuffix]
       ELSE [normalizedBase |-> shrinkWithHash(baseSegment, maxLength),
             normalizedSuffix |-> suffixSegment]

\* Lines 76-82: join, sanitize again, make the start valid again.
joinSegments(normalizedBase, normalizedSuffix) ==
    ensureValidStart(sanitizeSegment(
        IF Len(normalizedSuffix) > 0 THEN normalizedBase \o "-" \o normalizedSuffix
        ELSE normalizedBase))

\* Lines 84-87: the final length enforcement.
enforceMaxLength(combined, maxLength) ==
    IF Len(combined) > maxLength
        THEN ensureValidStart(StripTrailingHyphens(Slice(combined, 0, maxLength)))
    ELSE combined
\* The padding without the slice back to the minimum length.
enforceMinLength_NoSlice(combined) ==
    IF Len(combined) < MIN_NAME_LENGTH THEN combined \o "0000" ELSE combined

\* The padding with a filler too short to reach the minimum length.
enforceMinLength_ShortFiller(combined) ==
    IF Len(combined) < MIN_NAME_LENGTH
        THEN Slice(combined \o "00", 0, MIN_NAME_LENGTH)
    ELSE combined

\* Lines 89-91: the minimum length enforcement.
enforceMinLength(combined) ==
    IF Len(combined) < MIN_NAME_LENGTH
        THEN Slice(combined \o "0000", 0, MIN_NAME_LENGTH)
    ELSE combined

buildName(base, suffix, maxLength) ==
    LET sanitizedBase == sanitizeSegment(base)
        baseSegment == ensureValidStart(IF sanitizedBase = "" THEN DEFAULT_BASE_SEGMENT
                                        ELSE sanitizedBase)
        suffixSegment == sanitizeSegment(suffix)
        budget == allocateBudget(baseSegment, suffixSegment, maxLength)
        combined == joinSegments(budget.normalizedBase, budget.normalizedSuffix)
    IN enforceMinLength(enforceMaxLength(combined, maxLength))

(***************************************************************************)
(* Pulumi resources. An object or an argument record has a field only when *)
(* the field is defined; a resource is its type, its name and the inputs   *)
(* it was declared with.                                                   *)
(***************************************************************************)
Has(object, field) == field \in DOMAIN object

\* array && array.length > 0
NonEmptyList(object, field) == Has(object, field) /\ Len(object[field]) > 0

Resource(type, name, inputs) == [type |-> type, name |-> name, inputs |-> inputs]

\* super(type, name, {}, opts): the component registers itself.
ComponentResource(type, name) == Resource(type, name, <<>>)

\* What a constructor leaves behind: the object or the error, and the
\* resources registered up to there.
Constructed(outcome, registered) == [outcome |-> outcome, resources |-> registered]

\* The resources of a list that have one of the given types.
OfType(registered, types) ==
    {i \in 1..Len(registered) : registered[i].type \in types}

(***************************************************************************)
(* src/modules/networking/index.ts: the Networking component               *)
(***************************************************************************)
DEFAULT_VPC_CIDR == "10.0.0.0/24"

\* The blocks deriveSubnetCidr returns for the indices from..to-1, up to the
\* first call that throws, and that call's error if there is one.
RECURSIVE DeriveLoop(_, _, _, _)
DeriveLoop(baseCidr, subnetPrefix, from, to) ==
    IF from >= to THEN [blocks |-> <<>>, error |-> <<>>]
    ELSE LET block == deriveSubnetCidr(baseCidr, subnetPrefix, Wide(from))
             rest == DeriveLoop(baseCidr, subnetPrefix, from + 1, to)
         IN IF block.threw THEN [blocks |-> <<>>, error |-> <<block>>]
            ELSE [blocks |-> <<block.value>> \o rest.blocks, error |-> rest.error]

\* Lines 149-204: one aws.ec2.Subnet per derived block.
Subnets(input, kind, blocks) ==
    [i \in 1..Len(blocks) |->
        Resource("aws.ec2.Subnet", input.name \o "-" \o kind \o "-" \o ToDecimal(i - 1),
                 [cidrBlock |-> blocks[i], Type |-> kind])]

\* Lines 206-248: fck-nat or an Elastic IP and a NAT Gateway in the first
\* public subnet. The fields it sets on this, and what it registers.
natSelection(input, publicSubnets, privateSubnets) ==
    IF Has(input, "useFckNat") /\ input.useFckNat
        THEN [this |-> [fckNat |-> ComponentResource("custom:networking:FckNat",
                                                      input.name \o "-fck-nat")],
              registered |-> <<ComponentResource("custom:networking:FckNat",
                                                  input.name \o "-fck-nat")>>]
    ELSE LET eip == Resource("aws.ec2.Eip", input.name \o "-nat-eip", [domain |-> "vpc"])
             natGateway == Resource("aws.ec2.NatGateway", input.name \o "-nat",
                                    [allocationId |-> eip.name,
                                     subnetId |-> publicSubnets[1].name])
         IN [this |-> [natGateway |-> natGateway], registered |-> <<eip, natGateway>>]

\* Lines 250-284: the public route table, its default route and one
\* association per public subnet.
publicRouting(input, internetGateway, publicSubnets) ==
    LET publicRouteTable == Resource("aws.ec2.RouteTable", input.name \o "-public-rt", <<>>)
    IN [this |-> [publicRouteTable |-> publicRouteTable],
        registered |->
            <<publicRouteTable,
              Resource("aws.ec2.Route", input.name \o "-public-route",
                       [routeTableId |-> publicRouteTable.name,
                        destinationCidrBlock |-> "0.0.0.0/0",
                        gatewayId |-> internetGateway.name])>>
            \o [i \in 1..Len(publicSubnets) |->
                   Resource("aws.ec2.RouteTableAssociation",
                            input.name \o "-public-rta-" \o ToDecimal(i - 1),
                            [subnetId |-> publicSubnets[i].name,
                             routeTableId |-> publicRouteTable.name])]]

\* Lines 286-323 without the test of useFckNat.
privateRouting_Always(input, this, privateSubnets) ==
    LET privateRouteTable == Resource("aws.ec2.RouteTable", input.name \o "-private-rt", <<>>)
    IN [this |-> [privateRouteTable |-> privateRouteTable],
        registered |-> <<privateRouteTable>>]

\* Lines 286-323: with a NAT Gateway, the private route table, its default
\* route and one association per private subnet; with fck-nat, nothing.
privateRouting(input, this, privateSubnets) ==
    IF ~(Has(input, "useFckNat") /\ input.useFckNat) /\ Has(this, "natGateway")
        THEN LET privateRouteTable ==
                     Resource("aws.ec2.RouteTable", input.name \o "-private-rt", <<>>)
             IN [this |-> [privateRouteTable |-> privateRouteTable],
                 registered |->
                     <<privateRouteTable,
                       Resource("aws.ec2.Route", input.name \o "-private-route",
                                [routeTableId |-> privateRouteTable.name,
                                 destinationCidrBlock |-> "0.0.0.0/0",
                                 natGatewayId |-> this.natGateway.name])>>
                     \o [i \in 1..Len(privateSubnets) |->
                            Resource("aws.ec2.RouteTableAssociation",
                                     input.name \o "-private-rta-" \o ToDecimal(i - 1),
                                     [subnetId |-> privateSubnets[i].name,
                                      routeTableId |-> privateRouteTable.name])]]
    ELSE [this |-> <<>>, registered |-> <<>>]

\* The body of the constructor, given the outcomes of its calls of
\* parseCidr, determineSubnetPrefix and deriveSubnetCidr.
NetworkingResources(name, input, baseCidr, azCount, parsed, sized, publicLoop, privateLoop) ==
    LET self == ComponentResource("custom:networking:Networking", name)
        vpc == Resource("aws.ec2.Vpc", input.name \o "-vpc", [cidrBlock |-> baseCidr])
        internetGateway == Resource("aws.ec2.InternetGateway", input.name \o "-igw",
                                    [vpcId |-> vpc.name])
        publicSubnets == Subnets(input, "public", publicLoop.blocks)
        privateSubnets == Subnets(input, "private", privateLoop.blocks)
        nat == natSelection(input, publicSubnets, privateSubnets)
        public == publicRouting(input, internetGateway, publicSubnets)
        this == [vpc |-> vpc, internetGateway |-> internetGateway,
                 publicSubnets |-> publicSubnets, privateSubnets |-> privateSubnets]
                    @@ nat.this @@ public.this
        private == privateRouting(input, this, privateSubnets)
    IN IF azCount < 1
           THEN Constructed(Throw("availabilityZoneCount must be at least 1"), <<self, vpc>>)
       ELSE IF parsed.threw THEN Constructed(parsed, <<self, vpc>>)
       ELSE IF sized.threw THEN Constructed(sized, <<self, vpc>>)
       ELSE IF publicLoop.error # <<>>
           THEN Constructed(publicLoop.error[1],
                            <<self, vpc, internetGateway>> \o publicSubnets)
       ELSE IF privateLoop.error # <<>>
           THEN Constructed(privateLoop.error[1],
                            <<self, vpc, internetGateway>> \o publicSubnets
                                \o privateSubnets)
       ELSE Constructed(Return(this @@ private.this),
                        <<self, vpc, internetGateway>> \o publicSubnets \o privateSubnets
                            \o nat.registered \o public.registered \o private.registered)

\* The constructor with the private subnets derived from index 0 again.
Networking_PrivateFromZero(name, input) ==
    LET baseCidr == IF Has(input, "cidrBlock") /\ input.cidrBlock # ""
                        THEN input.cidrBlock
                    ELSE DEFAULT_VPC_CIDR
        azCount == IF Has(input, "availabilityZoneCount")
                          /\ input.availabilityZoneCount # 0
                       THEN input.availabilityZoneCount
                   ELSE 2
        parsed == parseCidr(baseCidr)
        sized == determineSubnetPrefix(parsed.value.prefix, azCount * 2)
    IN NetworkingResources(name, input, baseCidr, azCount, parsed, sized,
                           DeriveLoop(baseCidr, sized.value, 0, azCount),
                           DeriveLoop(baseCidr, sized.value, 0, azCount))

\* new Networking(name, input). The availability zone of a subnet is read
\* from a promise that settles after the constructor has returned; it is not
\* part of what the constructor does.
Networking(name, input) ==
    LET baseCidr == IF Has(input, "cidrBlock") /\ input.cidrBlock # ""
                        THEN input.cidrBlock
                    ELSE DEFAULT_VPC_CIDR
        azCount == IF Has(input, "availabilityZoneCount")
                          /\ input.availabilityZoneCount # 0
                       THEN input.availabilityZoneCount
                   ELSE 2
        parsed == parseCidr(baseCidr)
        totalSubnets == azCount * 2
        sized == determineSubnetPrefix(parsed.value.prefix, totalSubnets)
    IN NetworkingResources(name, input, baseCidr, azCount, parsed, sized,
                           DeriveLoop(baseCidr, sized.value, 0, azCount),
                           DeriveLoop(baseCidr, sized.value, azCount, azCount + azCount))

(***************************************************************************)
(* src/modules/networking/fck-nat.ts: the FckNat component. The constructor *)
(* creates the instances and the route tables inside the callbacks of two  *)
(* nested apply calls; a callback of apply runs after the code that called *)
(* apply has run to its end, once the output is known, or not at all       *)
(* (an output that stays unknown, as in a preview).                        *)
(***************************************************************************)
\* Lines 24-143: the resources the constructor creates itself.
fckNatOwnResources(name, input) ==
    <<ComponentResource("custom:networking:FckNat", name),
      Resource("aws.ec2.SecurityGroup", input.name \o "-fck-nat-sg", [vpcId |-> input.vpcId]),
      Resource("aws.iam.Role", input.name \o "-fck-nat-role", <<>>),
      Resource("aws.iam.Policy", input.name \o "-fck-nat-policy", <<>>),
      Resource("aws.iam.RolePolicyAttachment", input.name \o "-fck-nat-policy-attachment",
               [role |-> input.name \o "-fck-nat-role"]),
      Resource("aws.iam.InstanceProfile", input.name \o "-fck-nat-profile",
               [role |-> input.name \o "-fck-nat-role"])>>

\* Lines 224-228: registerOutputs reads the two lists as they are when it is
\* called.
fckNatOutputs(this) ==
    [securityGroupId |-> this.securityGroup.name,
     instanceIds |-> [i \in 1..Len(this.instances) |-> this.instances[i].name],
     routeTableIds |-> [i \in 1..Len(this.routeTables) |-> this.routeTables[i].name]]

\* new FckNat(name, input), lines 18-229, up to its return: both lists are
\* set to [], the callback is handed to apply, the outputs are registered.
FckNat(name, input) ==
    LET own == fckNatOwnResources(name, input)
        this == [securityGroup |-> own[2], instances |-> <<>>, routeTables |-> <<>>]
    IN Constructed(Return(this) @@ [outputs |-> fckNatOutputs(this), asked |-> <<>>], own)

\* Lines 156-180: the instance of index i (from 0), in public subnet i.
fckNatInstance(input, pubSubnets, i) ==
    Resource("aws.ec2.Instance", input.name \o "-fck-nat-" \o ToDecimal(i),
             [instanceType |-> IF input.environment = "prod" THEN "t4g.small" ELSE "t4g.nano",
              subnetId |-> pubSubnets[i + 1]])

\* Lines 185-195: the route table of index i.
fckNatRouteTable(input, i) ==
    Resource("aws.ec2.RouteTable", input.name \o "-private-rt-" \o ToDecimal(i),
             [vpcId |-> input.vpcId])

\* Lines 154-220: one turn of the loop: what it registers. privSubnets[i] is
\* undefined beyond the end of the private list.
fckNatZone(input, pubSubnets, privSubnets, i) ==
    <<fckNatInstance(input, pubSubnets, i),
      fckNatRouteTable(input, i),
      Resource("aws.ec2.Route", input.name \o "-private-route-" \o ToDecimal(i),
               [routeTableId |-> fckNatRouteTable(input, i).name,
                networkInterfaceId |-> fckNatInstance(input, pubSubnets, i).name]),
      Resource("aws.ec2.RouteTableAssociation", input.name \o "-private-rta-" \o ToDecimal(i),
               [routeTableId |-> fckNatRouteTable(input, i).name]
                   @@ (IF i < Len(privSubnets) THEN [subnetId |-> privSubnets[i + 1]]
                       ELSE <<>>))>>

RECURSIVE fckNatZones(_, _, _, _)
fckNatZones(input, pubSubnets, privSubnets, from) ==
    IF from >= Len(pubSubnets) THEN <<>>
    ELSE fckNatZone(input, pubSubnets, privSubnets, from)
             \o fckNatZones(input, pubSubnets, privSubnets, from + 1)

\* Lines 239-256: getCostSavings, in tenths of a dollar (3.8 is 38).
getCostSavings(this) ==
    LET azCount == Len(this.instances)
        natGatewayCost == azCount * 450
        fckNatCost == azCount * 38
    IN [natGatewayCost |-> natGatewayCost, fckNatCost |-> fckNatCost,
        monthlySavings |-> natGatewayCost - fckNatCost]

(***************************************************************************)
(* src/modules/cicd/github-actions-role.ts                                 *)
(***************************************************************************)
\* args.field || []
OrEmpty(input, field) == IF Has(input, field) THEN input[field] ELSE <<>>

\* Array.from(new Set(list)): the first occurrence of each element, in order.
RECURSIVE Distinct(_)
Distinct(list) ==
    IF Len(list) = 0 THEN <<>>
    ELSE LET before == Distinct(SubSeq(list, 1, Len(list) - 1))
             last == list[Len(list)]
         IN IF \E i \in 1..Len(before) : before[i] = last THEN before
            ELSE Append(before, last)

\* createAssumeRolePolicy with the subjects left as they come, duplicates
\* included.
subjectConditions_NoSet(input) ==
    LET branches == OrEmpty(input, "githubBranches")
        environments == OrEmpty(input, "githubEnvironments")
        repo == "repo:" \o input.githubOrg \o "/" \o input.githubRepo
        branchSubjects == [i \in 1..Len(branches) |->
                              repo \o ":ref:refs/heads/" \o branches[i]]
        environmentSubjects == [i \in 1..Len(environments) |->
                                   repo \o ":environment:" \o environments[i]]
    IN branchSubjects \o environmentSubjects

\* Lines 90-100 of createAssumeRolePolicy.
subjectConditions(input) ==
    LET branches == OrEmpty(input, "githubBranches")
        environments == OrEmpty(input, "githubEnvironments")
        repo == "repo:" \o input.githubOrg \o "/" \o input.githubRepo
        branchSubjects == [i \in 1..Len(branches) |->
                              repo \o ":ref:refs/heads/" \o branches[i]]
        environmentSubjects == [i \in 1..Len(environments) |->
                                   repo \o ":environment:" \o environments[i]]
    IN Distinct(branchSubjects \o environmentSubjects)

\* The policy document createAssumeRolePolicy serializes, for the ARN the
\* engine gives the OIDC provider.
createAssumeRolePolicy(input, oidcArn) ==
    LET parts == Split(oidcArn, "/")
        providerUrl == Join(SubSeq(parts, 2, Len(parts)), "/")
    IN [Version |-> "2012-10-17",
        Effect |-> "Allow",
        Federated |-> oidcArn,
        Action |-> "sts:AssumeRoleWithWebIdentity",
        StringEquals |-> (providerUrl \o ":aud") :> "sts.amazonaws.com",
        StringLike |-> (providerUrl \o ":sub") :> subjectConditions(input)]

\* createInlinePolicy: it throws without an ECR repository ARN; of the
\* document only the repositories it names are kept.
createInlinePolicy(input) ==
    IF ~Has(input, "ecrRepositoryArns") \/ Len(input.ecrRepositoryArns) = 0
        THEN Throw("GitHubActionsRole requires at least one ECR repository ARN.")
    ELSE Return([ecrRepositoryArns |-> input.ecrRepositoryArns])

\* new GitHubActionsRole(name, input), the OIDC provider getting oidcArn.
GitHubActionsRole(name, input, oidcArn) ==
    LET self == ComponentResource("custom:security:GitHubActionsRole", name)
        hasBranchSubjects == NonEmptyList(input, "githubBranches")
        hasEnvironmentSubjects == NonEmptyList(input, "githubEnvironments")
        oidcProvider == Resource("aws.iam.OpenIdConnectProvider",
                                 input.name \o "-github-oidc",
                                 [url |-> "https://token.actions.githubusercontent.com",
                                  clientIdLists |-> <<"sts.amazonaws.com">>])
        inlinePolicy == createInlinePolicy(input)
        role == Resource("aws.iam.Role", input.name \o "-github-actions-role",
                         [name |-> "GitHubActions-" \o input.name \o "-" \o input.environment,
                          assumeRolePolicy |-> createAssumeRolePolicy(input, oidcArn),
                          managedPolicyArns |->
                              <<"arn:aws:iam::aws:policy/ReadOnlyAccess">>
                                  \o OrEmpty(input, "additionalPolicyArns"),
                          inlinePolicies |->
                              <<[name |-> "ECRAndAppRunnerPolicy",
                                 policy |-> inlinePolicy.value]>>])
    IN IF ~hasBranchSubjects /\ ~hasEnvironmentSubjects
           THEN Constructed(Throw("GitHubActionsRole requires at least one GitHub branch or environment to be specified."),
                            <<self>>)
       ELSE IF inlinePolicy.threw THEN Constructed(inlinePolicy, <<self, oidcProvider>>)
       ELSE Constructed(Return([oidcProvider |-> oidcProvider, role |-> role]),
                        <<self, oidcProvider, role>>)

(***************************************************************************)
(* src/modules/database/index.ts                                           *)
(***************************************************************************)
\* args.field || fallback for a string field and for a number field.
TextOr(input, field, fallback) ==
    IF Has(input, field) /\ input[field] # "" THEN input[field] ELSE fallback

NumberOr(input, field, fallback) ==
    IF Has(input, field) /\ input[field] # 0 THEN input[field] ELSE fallback

\* The ingress with all the allowed security groups in a single rule.
ingressRules_OneRule(input) ==
    IF NonEmptyList(input, "allowedSecurityGroupIds")
        THEN <<[fromPort |-> 5432, toPort |-> 5432, protocol |-> "tcp",
                securityGroups |-> input.allowedSecurityGroupIds,
                description |-> "Postgres ingress from SG (1)"]>>
    ELSE <<[fromPort |-> 5432, toPort |-> 5432, protocol |-> "tcp",
            securityGroups |-> <<input.securityGroupId>>]>>

\* Lines 35-51: the ingress of the security group.
ingressRules(input) ==
    IF NonEmptyList(input, "allowedSecurityGroupIds")
        THEN [idx \in 1..Len(input.allowedSecurityGroupIds) |->
                 [fromPort |-> 5432, toPort |-> 5432, protocol |-> "tcp",
                  securityGroups |-> <<input.allowedSecurityGroupIds[idx]>>,
                  description |-> "Postgres ingress from SG (" \o ToDecimal(idx) \o ")"]]
    ELSE <<[fromPort |-> 5432, toPort |-> 5432, protocol |-> "tcp",
            securityGroups |-> <<input.securityGroupId>>]>>

\* createMonitoringRole: the role and its policy attachment.
createMonitoringRole ==
    <<Resource("aws.iam.Role", "enhanced-monitoring-role",
               [Service |-> "monitoring.rds.amazonaws.com"]),
      Resource("aws.iam.RolePolicyAttachment", "enhanced-monitoring-policy",
               [role |-> "enhanced-monitoring-role",
                policyArn |-> "arn:aws:iam::aws:policy/service-role/AmazonRDSEnhancedMonitoringRole"])>>

createParameterGroup(name, environment) ==
    Resource("aws.rds.ParameterGroup", name \o "-postgres-params",
             [name |-> name \o "-postgres-params-" \o environment,
              family |-> "postgres15",
              log_statement |-> IF environment = "prod" THEN "none" ELSE "all",
              max_connections |-> IF environment = "prod" THEN "200" ELSE "100"])

\* new Database(name, input).
Database(name, input) ==
    LET self == ComponentResource("custom:database:Database", name)
        subnetGroup == Resource("aws.rds.SubnetGroup", input.name \o "-subnet-group",
                                [subnetIds |-> input.subnetIds])
        securityGroup ==
            Resource("aws.ec2.SecurityGroup", input.name \o "-db-sg",
                     [ingress |-> ingressRules(input),
                      egress |-> <<[fromPort |-> 0, toPort |-> 0, protocol |-> "-1",
                                    cidrBlocks |-> <<"0.0.0.0/0">>]>>])
        isProduction == input.environment = "prod"
        instanceClass == TextOr(input, "instanceClass",
                                IF isProduction THEN "db.t4g.small" ELSE "db.t3.micro")
        monitoring == IF isProduction THEN createMonitoringRole ELSE <<>>
        parameterGroup == createParameterGroup(input.name, input.environment)
        instance ==
            Resource("aws.rds.Instance", input.name \o "-postgres",
                     [identifier |-> input.name \o "-postgres-" \o input.environment,
                      allocatedStorage |-> NumberOr(input, "allocatedStorage", 20),
                      maxAllocatedStorage |-> NumberOr(input, "maxAllocatedStorage", 100),
                      storageEncrypted |-> TRUE,
                      instanceClass |-> instanceClass,
                      dbName |-> input.dbName,
                      username |-> input.username,
                      port |-> 5432,
                      multiAz |-> isProduction,
                      backupRetentionPeriod |-> IF isProduction THEN 7 ELSE 1,
                      dbSubnetGroupName |-> subnetGroup.name,
                      vpcSecurityGroupIds |-> <<securityGroup.name>>,
                      publiclyAccessible |-> FALSE,
                      deletionProtection |-> isProduction,
                      skipFinalSnapshot |-> ~isProduction,
                      parameterGroupName |-> parameterGroup.inputs.name])
    IN Constructed(Return([subnetGroup |-> subnetGroup, securityGroup |-> securityGroup,
                           instance |-> instance]),
                   <<self, subnetGroup, securityGroup>> \o monitoring
                       \o <<parameterGroup, instance>>)

(***************************************************************************)
(* src/modules/lambda/index.ts                                             *)
(***************************************************************************)
\* Lines 157-163 with the function's own variables written after the spread.
environmentVariables_OwnLast(input) ==
    [NODE_ENV |-> input.environment,
     LOG_LEVEL |-> IF input.environment = "prod" THEN "info" ELSE "debug"]
        @@ OrEmpty(input, "environmentVariables")

\* Lines 157-163: { NODE_ENV, LOG_LEVEL, ...args.environmentVariables }; a
\* key written again by the spread takes the spread's value.
environmentVariables(input) ==
    OrEmpty(input, "environmentVariables")
        @@ [NODE_ENV |-> input.environment,
            LOG_LEVEL |-> IF input.environment = "prod" THEN "info" ELSE "debug"]

\* Lines 182-191: the vpcConfig property, absent when undefined.
vpcConfig(input) ==
    IF NonEmptyList(input, "subnetIds") /\ NonEmptyList(input, "securityGroupIds")
        THEN [vpcConfig |-> [subnetIds |-> input.subnetIds,
                             securityGroupIds |-> input.securityGroupIds]]
    ELSE <<>>

\* createDLQ: the queue, the policy that lets the function send to it, and
\* the attachment of the policy to the role.
createDLQ(functionName, role) ==
    <<Resource("aws.sqs.Queue", functionName \o "-dlq", [name |-> functionName \o "-dlq"]),
      Resource("aws.iam.Policy", functionName \o "-dlq-policy",
               [Resource |-> functionName \o "-dlq"]),
      Resource("aws.iam.RolePolicyAttachment", functionName \o "-dlq-policy-attach",
               [role |-> role.name, policyArn |-> functionName \o "-dlq-policy"])>>

\* new LambdaFunction(name, input).
LambdaFunction(name, input) ==
    LET self == ComponentResource("custom:lambda:LambdaFunction", name)
        role == Resource("aws.iam.Role", input.name \o "-lambda-role",
                         [Service |-> "lambda.amazonaws.com"])
        scopedPolicy ==
            Resource("aws.iam.Policy", input.name \o "-lambda-policy",
                     [logGroup |-> "/aws/lambda/" \o input.name \o "-" \o input.environment,
                      ssmParameterPaths |-> OrEmpty(input, "ssmParameterPaths")])
        attachment == Resource("aws.iam.RolePolicyAttachment",
                               input.name \o "-scoped-policy-attach",
                               [role |-> role.name, policyArn |-> scopedPolicy.name])
        logGroup ==
            Resource("aws.cloudwatch.LogGroup", input.name \o "-lambda-logs",
                     [name |-> "/aws/lambda/" \o input.name \o "-" \o input.environment,
                      retentionInDays |-> IF input.environment = "prod" THEN 14 ELSE 7])
        functionName == input.name \o "-" \o input.environment
        hasAlias == Has(input, "aliasName") /\ input.aliasName # ""
        publishFunction == IF Has(input, "publish") THEN input.publish ELSE hasAlias
        deadLetter == IF input.environment = "prod" THEN createDLQ(functionName, role)
                      ELSE <<>>
        function ==
            Resource("aws.lambda.Function", input.name \o "-lambda",
                     [name |-> functionName,
                      handler |-> input.handler,
                      runtime |-> input.runtime,
                      role |-> role.name,
                      timeout |-> NumberOr(input, "timeout", 30),
                      memorySize |-> NumberOr(input, "memorySize", 128),
                      environment |-> [variables |-> environmentVariables(input)],
                      tracingConfig |->
                          [mode |-> IF input.environment = "prod" THEN "Active"
                                    ELSE "PassThrough"]]
                         @@ (IF publishFunction THEN [publish |-> TRUE] ELSE <<>>)
                         @@ (IF input.environment = "prod"
                                 THEN [deadLetterConfig |-> [targetArn |-> deadLetter[1].name]]
                             ELSE [reservedConcurrentExecutions |-> 5])
                         @@ vpcConfig(input))
        alias == Resource("aws.lambda.Alias", input.name \o "-lambda-alias",
                          [name |-> input.aliasName, functionName |-> function.inputs.name])
    IN Constructed(Return([role |-> role, logGroup |-> logGroup, function |-> function]
                              @@ (IF hasAlias THEN [alias |-> alias] ELSE <<>>)),
                   <<self, role, scopedPolicy, attachment, logGroup>> \o deadLetter
                       \o <<function>> \o (IF hasAlias THEN <<alias>> ELSE <<>>))

(***************************************************************************)
(* src/modules/compute/index.ts, the AppRunnerService component            *)
(***************************************************************************)
\* getName(): pulumi.getStack(), "stack" under the mocks of the tests.
getName == "stack"

\* createAccessRole: the role and its ECR access attachment.
createAccessRole ==
    <<Resource("aws.iam.Role", getName \o "-access-role",
               [Service |-> "build.apprunner.amazonaws.com"]),
      Resource("aws.iam.RolePolicyAttachment", getName \o "-ecr-access-policy",
               [role |-> getName \o "-access-role",
                policyArn |-> "AWSAppRunnerServicePolicyForECRAccess"])>>

\* createInstanceRole: the role, its two attachments, and the SSM policy with
\* its attachment when ssmParameterPaths is not empty.
createInstanceRole(input) ==
    <<Resource("aws.iam.Role", getName \o "-instance-role",
               [Service |-> "tasks.apprunner.amazonaws.com"]),
      Resource("aws.iam.RolePolicyAttachment", getName \o "-basic-policy",
               [role |-> getName \o "-instance-role",
                policyArn |-> "AWSAppRunnerServicePolicyForECRAccess"]),
      Resource("aws.iam.RolePolicyAttachment", getName \o "-xray-write",
               [role |-> getName \o "-instance-role",
                policyArn |-> "AWSXRayDaemonWriteAccess"])>>
    \o (IF NonEmptyList(input, "ssmParameterPaths")
            THEN <<Resource("aws.iam.Policy", getName \o "-apprunner-ssm-read",
                            [Resource |-> input.ssmParameterPaths]),
                   Resource("aws.iam.RolePolicyAttachment",
                            getName \o "-apprunner-ssm-read-attach",
                            [role |-> getName \o "-instance-role",
                             policyArn |-> getName \o "-apprunner-ssm-read"])>>
        ELSE <<>>)

\* createSourceConfiguration, given the access role it has created.
createSourceConfiguration(input, accessRole) ==
    [autoDeploymentsEnabled |-> FALSE,
     authenticationConfiguration |-> [accessRoleArn |-> accessRole.name],
     imageRepository |->
         [imageIdentifier |-> input.ecrImageUri,
          imageConfiguration |->
              [port |-> "8080",
               runtimeEnvironmentVariables |->
                   OrEmpty(input, "environmentVariables")
                       @@ [NODE_ENV |-> input.environment,
                           DATABASE_URL |-> input.databaseUrl,
                           PORT |-> "8080"],
               startCommand |-> TextOr(input, "startCommand", "npm start")],
          imageRepositoryType |-> "ECR"]]

createObservabilityConfig ==
    Resource("aws.apprunner.ObservabilityConfiguration", getName \o "-observability",
             [observabilityConfigurationName |-> getName \o "-observability"])

\* The body of the constructor, given the three names buildName returns.
AppRunnerServiceResources(name, input, autoScalingName, vpcConnectorName, serviceName) ==
    LET self == ComponentResource("custom:compute:AppRunnerService", name)
        prod == input.environment = "prod"
        autoScalingConfig ==
            Resource("aws.apprunner.AutoScalingConfigurationVersion",
                     input.name \o "-autoscaling",
                     [autoScalingConfigurationName |-> autoScalingName,
                      maxConcurrency |-> NumberOr(input, "maxConcurrency", 25),
                      maxSize |-> NumberOr(input, "maxSize", IF prod THEN 5 ELSE 2),
                      minSize |-> IF Has(input, "minSize") THEN input.minSize
                                  ELSE IF prod THEN 2 ELSE 0])
        cpu == TextOr(input, "cpu", IF prod THEN "0.5 vCPU" ELSE "0.25 vCPU")
        memory == TextOr(input, "memory", IF prod THEN "1 GB" ELSE "0.5 GB")
        withConnector == /\ NonEmptyList(input, "vpcSubnetIds")
                         /\ NonEmptyList(input, "vpcSecurityGroupIds")
        vpcConnector ==
            Resource("aws.apprunner.VpcConnector", input.name \o "-vpc-connector",
                     [vpcConnectorName |-> vpcConnectorName,
                      subnets |-> input.vpcSubnetIds,
                      securityGroups |-> input.vpcSecurityGroupIds])
        accessRole == createAccessRole
        instanceRole == createInstanceRole(input)
        observability == IF prod THEN <<createObservabilityConfig>> ELSE <<>>
        service ==
            Resource("aws.apprunner.Service", input.name \o "-service",
                     [serviceName |-> serviceName,
                      sourceConfiguration |-> createSourceConfiguration(input, accessRole[1]),
                      autoScalingConfigurationArn |-> autoScalingConfig.name,
                      networkConfiguration |->
                          [egressConfiguration |->
                               IF withConnector
                                   THEN [egressType |-> "VPC",
                                         vpcConnectorArn |-> vpcConnector.name]
                               ELSE [egressType |-> "DEFAULT"],
                           ingressConfiguration |-> [isPubliclyAccessible |-> TRUE]],
                      instanceConfiguration |->
                          [cpu |-> cpu, memory |-> memory,
                           instanceRoleArn |-> instanceRole[1].name]]
                         @@ (IF prod
                                 THEN [observabilityConfiguration |->
                                           [observabilityEnabled |-> TRUE,
                                            observabilityConfigurationArn |->
                                                createObservabilityConfig.name]]
                             ELSE <<>>))
    IN IF ~Has(input, "ecrImageUri") \/ input.ecrImageUri = ""
           THEN Constructed(Throw("App Runner services require ECR image URI for source configuration."),
                            <<self>>)
       ELSE Constructed(
                Return([service |-> service, autoScalingConfig |-> autoScalingConfig]
                           @@ (IF withConnector THEN [vpcConnector |-> vpcConnector]
                               ELSE <<>>)),
                <<self, autoScalingConfig>>
                    \o (IF withConnector THEN <<vpcConnector>> ELSE <<>>)
                    \o accessRole \o instanceRole \o observability \o <<service>>)

\* new AppRunnerService(name, input): lines 104-234.
AppRunnerService(name, input) ==
    AppRunnerServiceResources(
        name, input,
        buildName(input.name, "autoscaling-" \o input.environment, 32),
        buildName(input.name, "vpc-connector-" \o input.environment, 32),
        buildName(input.name, "service-" \o input.environment, 40))

(***************************************************************************)
(* src/shared/ecr.ts                                                       *)
(***************************************************************************)
DEFAULT_PLACEHOLDER_TAG == "latest"

\* String.prototype.includes for one character.
Includes(text, c) == \E i \in 1..Len(text) : CharAt(text, i) = c

\* String.prototype.lastIndexOf for one character: 0-based, -1 when absent.
LastIndexOf(text, c) ==
    LET at == {i \in 1..Len(text) : CharAt(text, i) = c}
    IN IF at = {} THEN 0 - 1 ELSE (CHOOSE i \in at : \A j \in at : j <= i) - 1

\* The white space of the texts the model builds; String.prototype.trim
\* removes it (and the other white-space characters) at both ends.
WhiteSpace == {" "}

Trim(text) ==
    LET rest == SubSeq(text, LeadingRun(text, WhiteSpace) + 1, Len(text))
    IN SubSeq(rest, 1, Len(rest) - TrailingRun(rest, WhiteSpace))

isDigestReference(imageUri) == Includes(imageUri, "@")

\* extractTag taking the text after any colon, a registry port included.
extractTag_PortAsTag(imageUri) ==
    LET lastColon == LastIndexOf(imageUri, ":")
        tag == Trim(SliceFrom(imageUri, lastColon + 1))
    IN IF lastColon = 0 - 1 THEN <<>>
       ELSE IF Len(tag) > 0 THEN [tag |-> tag]
       ELSE <<>>

\* The tag as a record with the field tag, or with no field for undefined.
extractTag(imageUri) ==
    LET lastColon == LastIndexOf(imageUri, ":")
        lastSlash == LastIndexOf(imageUri, "/")
        tag == Trim(SliceFrom(imageUri, lastColon + 1))
    IN IF lastColon = 0 - 1 \/ lastColon < lastSlash THEN <<>>
       ELSE IF Len(tag) > 0 THEN [tag |-> tag]
       ELSE <<>>

\* input has the field imageUri unless the argument is undefined.
derivePlaceholderSeedConfig(input) ==
    IF ~Has(input, "imageUri") \/ input.imageUri = ""
        THEN [enabled |-> TRUE, tag |-> DEFAULT_PLACEHOLDER_TAG]
    ELSE IF isDigestReference(input.imageUri)
        THEN [enabled |-> FALSE,
              warning |-> "Skipping placeholder image seeding because configured image URI \""
                              \o input.imageUri \o "\" uses a digest reference."]
    ELSE [enabled |-> TRUE,
          tag |-> IF Has(extractTag(input.imageUri), "tag")
                      THEN extractTag(input.imageUri).tag
                  ELSE DEFAULT_PLACEHOLDER_TAG]

(***************************************************************************)
(* The calls the model makes, and the arguments it makes them with.        *)
(***************************************************************************)
MaxSubnetCount == 17

MaxSubnetIndex == 3

MaxOctets == 5

MaxTailLen == 3

MaxLength == 13

MaxNegativeLength == 1

\* w - 1 for w >= 1.
WPred(w) == IF w[2] = 0 THEN <<w[1] - 1, Radix - 1>> ELSE <<w[1], w[2] - 1>>

CidrText(address, prefix) == address \o "/" \o ToDecimal(prefix)

BaseAddresses == {"10.2.0.0", "10.0.0.0", "0.0.0.0", "192.168.37.77", "255.255.255.255"}

Prefixes == 0..32

\* Texts for parseCidr: every run of 1..MaxOctets octet texts, well formed or
\* not, followed by nothing, by "/" and a prefix text, or by a second "/".
OctetTexts == {"", "7", "256", "1a"}

PrefixTails == {"", "/", "/0", "/32", "/33", "/2a", "/24/8"}

RECURSIVE Dotted(_)
Dotted(count) ==
    IF count = 1 THEN OctetTexts
    ELSE {network \o "." \o octet : network \in Dotted(count - 1), octet \in OctetTexts}

ParseTexts ==
    {"10.2.0.0/24", "255.255.255.255/32", "999.1.1.1/24", "10..0.0/24", "/24"} \cup
    {network \o tail : network \in UNION {Dotted(n) : n \in 1..MaxOctets},
                       tail \in PrefixTails}

\* Subnet indices: the first few, and the last one in and first one beyond the
\* capacity 2^(subnetPrefix - basePrefix).
SubnetIndices(basePrefix, subnetPrefix) ==
    {Wide(i) : i \in 0..MaxSubnetIndex}
        \cup (IF subnetPrefix >= basePrefix
                  THEN {WPow2(subnetPrefix - basePrefix),
                        WPred(WPow2(subnetPrefix - basePrefix))}
              ELSE {})

\* Texts for buildName: every text of up to MaxTailLen characters, alone or
\* after a long stem, over a letter, both separators and an invalid character.
NameChars == {"a", "-", "_", "."}

RECURSIVE Texts(_)
Texts(length) ==
    IF length = 0 THEN {""}
    ELSE LET shorter == Texts(length - 1)
         IN shorter \cup {text \o c : text \in shorter, c \in NameChars}

BaseStems == {"", "a_b-cdefgh"}

Bases == {stem \o tail : stem \in BaseStems, tail \in Texts(MaxTailLen)}

Suffixes == {"", "x", "_", "p.q", "-dev", "prod_", "s_t-uvw"}

MaxLengths == (0 - MaxNegativeLength)..MaxLength

\* The three names the AppRunnerService constructor builds (lines 120, 148, 163).
ServiceNames == {"app", "my-very-long-application-name-that-exceeds-limits", "_api.v2_"}

Environments == {"dev", "staging", "prod"}

AppRunnerArgs ==
    {[base |-> name, suffix |-> kind[1] \o "-" \o environment, maxLength |-> kind[2]] :
        name \in ServiceNames, environment \in Environments,
        kind \in {<<"autoscaling", 32>>, <<"vpc-connector", 32>>, <<"service", 40>>}}

InitParse ==
    /\ call = "parseCidr"
    /\ args \in {[cidr |-> text] : text \in ParseTexts}

InitDetermine ==
    /\ call = "determineSubnetPrefix"
    /\ args \in [basePrefix : Prefixes, subnetCount : 1..MaxSubnetCount]

InitDerive ==
    /\ call = "deriveSubnetCidr"
    /\ \E address \in BaseAddresses, basePrefix \in Prefixes, subnetPrefix \in Prefixes :
          \E subnetIndex \in SubnetIndices(basePrefix, subnetPrefix) :
              args = [baseCidr |-> CidrText(address, basePrefix),
                      subnetPrefix |-> subnetPrefix,
                      subnetIndex |-> subnetIndex]

\* Arguments outside the ranges the callers use: prefixes below 0 and above
\* 32, negative indices, counts below 1.
MaxExcessPrefix == 2

MaxNegativeIndex == 2

MaxNegativeCount == 2

EdgeBasePrefixes == {0, 8, 24, 31, 32}

InitDeriveEdge ==
    /\ call = "deriveSubnetCidr"
    /\ \E address \in BaseAddresses, basePrefix \in EdgeBasePrefixes,
          subnetPrefix \in (0 - MaxExcessPrefix)..(32 + MaxExcessPrefix),
          subnetIndex \in (0 - MaxNegativeIndex)..MaxSubnetIndex :
          args = [baseCidr |-> CidrText(address, basePrefix),
                  subnetPrefix |-> subnetPrefix,
                  subnetIndex |-> Wide(subnetIndex)]

InitDetermineEdge ==
    /\ call = "determineSubnetPrefix"
    /\ args \in [basePrefix : Prefixes, subnetCount : (0 - MaxNegativeCount)..1]

\* 32-bit values for intToIp: every combination of four octets out of a few,
\* the smallest and the largest included.
RoundTripOctets == {0, 2, 10, 128, 255}

Addresses32 ==
    {<<a * 256 + b, c * 256 + d>> : a \in RoundTripOctets, b \in RoundTripOctets,
                                    c \in RoundTripOctets, d \in RoundTripOctets}

InitIntToIp ==
    /\ call = "intToIp"
    /\ args \in [value : Addresses32, prefix : Prefixes]

InitPlan ==
    /\ call = "subnetPlan"
    /\ \E address \in BaseAddresses, basePrefix \in Prefixes, subnetCount \in 1..MaxSubnetCount :
          args = [baseCidr |-> CidrText(address, basePrefix), subnetCount |-> subnetCount]

\* Pairs of bases for two calls of buildName: a long stem followed by up to
\* MaxPairTailLen characters over a letter and two invalid characters.
MaxPairTailLen == 2

PairChars == {"a", ".", "/"}

RECURSIVE PairTails(_)
PairTails(length) ==
    IF length = 0 THEN {""}
    ELSE LET shorter == PairTails(length - 1)
         IN shorter \cup {text \o c : text \in shorter, c \in PairChars}

PairStem == "a_b-cdefgh"

PairBases == {PairStem \o tail : tail \in PairTails(MaxPairTailLen)}

PairSuffixes == {"", "dev"}

\* Argument records: a field that may be left out is either absent or one of
\* its values.
Optional(field, values) == {<<>>} \cup {field :> value : value \in values}

MaxAzCount == 9

CidrBlocks == {"", "10.0.0.0/24", "10.0.0.0/16", "10.0.0.77/27", "10.0.0.0/29", "10.0.0/24"}

NetworkingArgs ==
    {[name |-> "app", environment |-> environment] @@ cidrBlock @@ azCount @@ useFckNat :
        environment \in {"dev", "prod"},
        cidrBlock \in Optional("cidrBlock", CidrBlocks),
        azCount \in Optional("availabilityZoneCount", (0 - 1)..MaxAzCount),
        useFckNat \in Optional("useFckNat", BOOLEAN)}

InitNetworking ==
    /\ call = "new Networking"
    /\ args \in {[name |-> "net-dev", args |-> input] : input \in NetworkingArgs}

\* Image URIs: every text of up to MaxUriLen characters over a letter, the
\* three characters the code looks for and a space, and the URIs of the tests.
MaxUriLen == 4

UriChars == {"a", ":", "/", "@", " "}

RECURSIVE UriTexts(_)
UriTexts(length) ==
    IF length = 0 THEN {""}
    ELSE LET shorter == UriTexts(length - 1)
         IN shorter \cup {text \o c : text \in shorter, c \in UriChars}

ImageUris ==
    UriTexts(MaxUriLen)
        \cup {"123456789012.dkr.ecr.us-west-2.amazonaws.com/app@sha256:abc",
              "123456789012.dkr.ecr.us-west-2.amazonaws.com/app:my-tag",
              "host:5000/app", "host:5000/app:v1"}

InitDerivePlaceholderSeedConfig ==
    /\ call = "derivePlaceholderSeedConfig"
    /\ args \in Optional("imageUri", ImageUris)

\* Every list of up to length elements of a set.
RECURSIVE Lists(_, _)
Lists(elements, length) ==
    IF length = 0 THEN {<<>>}
    ELSE LET shorter == Lists(elements, length - 1)
         IN shorter \cup {Append(list, e) : list \in shorter, e \in elements}

MaxSubjects == 2

GitHubActionsRoleArgs ==
    {[name |-> "app", environment |-> "dev", githubOrg |-> "example", githubRepo |-> "repo"]
         @@ branches @@ environments @@ arns @@ policies :
        branches \in Optional("githubBranches", Lists({"develop", "main"}, MaxSubjects)),
        environments \in Optional("githubEnvironments", Lists({"dev", "main"}, MaxSubjects)),
        arns \in {[ecrRepositoryArns |-> list] :
                     list \in {<<>>, <<"arn:aws:ecr:region:123456789012:repository/app">>}},
        policies \in Optional("additionalPolicyArns",
                              {<<"arn:aws:iam::aws:policy/AmazonS3ReadOnlyAccess">>})}

OidcArns == {"arn:aws:iam::123456789012:oidc-provider/token.actions.githubusercontent.com"}

InitGitHubActionsRole ==
    /\ call = "new GitHubActionsRole"
    /\ args \in {[name |-> "test-role", args |-> input, oidcArn |-> oidcArn] :
                    input \in GitHubActionsRoleArgs, oidcArn \in OidcArns}

MaxAllowedGroups == 2

DatabaseArgs ==
    {[name |-> "app", environment |-> environment,
      subnetIds |-> <<"subnet-1", "subnet-2">>, securityGroupId |-> securityGroupId,
      dbName |-> "app_dev", username |-> "postgres"]
         @@ allowed @@ instanceClass @@ storage :
        environment \in Environments,
        securityGroupId \in {"sg-default", "sg-a"},
        allowed \in Optional("allowedSecurityGroupIds",
                             Lists({"sg-a", "sg-b"}, MaxAllowedGroups)),
        instanceClass \in Optional("instanceClass", {"db.t3.small"}),
        storage \in Optional("allocatedStorage", {0, 50})}

InitDatabase ==
    /\ call = "new Database"
    /\ args \in {[name |-> "db-dev", args |-> input] : input \in DatabaseArgs}

\* Every map from some of the keys to the values.
Maps(keys, values) == UNION {[chosen -> values] : chosen \in SUBSET keys}

MaxVpcIds == 1

LambdaArgs ==
    {[name |-> "my-func", environment |-> environment, runtime |-> "nodejs22.x",
      handler |-> "index.handler"]
         @@ subnetIds @@ securityGroupIds @@ variables @@ aliasName :
        environment \in Environments,
        subnetIds \in Optional("subnetIds", Lists({"subnet-1"}, MaxVpcIds)),
        securityGroupIds \in Optional("securityGroupIds", Lists({"sg-1"}, MaxVpcIds)),
        variables \in Optional("environmentVariables",
                               Maps({"EXTRA", "NODE_ENV"}, {"yes", "dev"})),
        aliasName \in Optional("aliasName", {"live"})}

InitLambdaFunction ==
    /\ call = "new LambdaFunction"
    /\ args \in {[name |-> "lambda-dev", args |-> input] : input \in LambdaArgs}

AppRunnerServiceArgs ==
    {[name |-> name, environment |-> environment,
      databaseUrl |-> "postgres://user:pw@host:5432/db",
      environmentVariables |-> [FOO |-> "bar"]]
         @@ ecrImageUri @@ vpcSubnetIds @@ vpcSecurityGroupIds @@ ssmParameterPaths :
        name \in {"test-app", "my-very-long-application-name-that-exceeds-limits"},
        environment \in Environments,
        ecrImageUri \in Optional("ecrImageUri", {"", "123.dkr.ecr.aws/test-app:latest"}),
        vpcSubnetIds \in Optional("vpcSubnetIds", Lists({"subnet-1"}, MaxVpcIds)),
        vpcSecurityGroupIds \in Optional("vpcSecurityGroupIds", Lists({"sg-123"}, MaxVpcIds)),
        ssmParameterPaths \in Optional("ssmParameterPaths", {<<>>, <<"/app/">>})}

InitAppRunnerService ==
    /\ call = "new AppRunnerService"
    /\ args \in {[name |-> "test-app-dev", args |-> input] : input \in AppRunnerServiceArgs}

InitSanitize ==
    /\ call = "sanitizeSegment"
    /\ args \in {[value |-> text] : text \in Bases \cup Suffixes}

BuildNameArgs == [base : Bases, suffix : Suffixes, maxLength : MaxLengths] \cup AppRunnerArgs

InitBuildName ==
    /\ call = "buildName"
    /\ args \in BuildNameArgs

InitBuildNamePair ==
    /\ call = "buildName, buildName"
    /\ args \in [base : PairBases, other : PairBases, suffix : PairSuffixes,
                 maxLength : MIN_NAME_LENGTH..MaxLength]

Ready == pc = "ready" /\ result = NotCalled /\ resources = <<>>

InitEdge == (InitDeriveEdge \/ InitDetermineEdge) /\ Ready

InitCidr == (InitParse \/ InitDetermine \/ InitDerive \/ InitPlan) /\ Ready

InitName == (InitSanitize \/ InitBuildName) /\ Ready

InitPair == InitBuildNamePair /\ Ready

InitAgain == InitBuildName /\ Ready

InitRoundTrip == InitIntToIp /\ Ready

InitInfra ==
    /\ \/ InitNetworking
       \/ InitGitHubActionsRole
       \/ InitDatabase
       \/ InitLambdaFunction
       \/ InitAppRunnerService
    /\ Ready

InitEcr == InitDerivePlaceholderSeedConfig /\ Ready

\* Arguments of FckNat: up to MaxFckNatSubnets public and private subnet ids,
\* the two lists of the same length (as Networking passes them) or not.
MaxFckNatSubnets == 2

FckNatArgs ==
    [name : {"app"}, environment : Environments, vpcId : {"vpc-1"},
     publicSubnetIds : Lists({"app-public-0", "app-public-1"}, MaxFckNatSubnets),
     privateSubnetIds : Lists({"app-private-0", "app-private-1"}, MaxFckNatSubnets)]

InitFckNatArgs ==
    /\ call = "new FckNat"
    /\ args \in {[name |-> "app-fck-nat", args |-> input] : input \in FckNatArgs}

InitFckNat == InitFckNatArgs /\ Ready

Init == InitCidr \/ InitEdge \/ InitRoundTrip \/ InitName \/ InitPair \/ InitInfra \/ InitEcr
            \/ InitFckNat

Finish(outcome) ==
    /\ pc = "ready"
    /\ pc' = "done"
    /\ result' = outcome
    /\ UNCHANGED <<call, args, resources>>

ParseCidrCall ==
    /\ call = "parseCidr"
    /\ Finish(parseCidr(args.cidr))

DetermineSubnetPrefixCall ==
    /\ call = "determineSubnetPrefix"
    /\ Finish(determineSubnetPrefix(args.basePrefix, args.subnetCount))

DeriveSubnetCidrCall ==
    /\ call = "deriveSubnetCidr"
    /\ Finish(deriveSubnetCidr(args.baseCidr, args.subnetPrefix, args.subnetIndex))

SubnetPlanCall ==
    /\ call = "subnetPlan"
    /\ Finish(subnetPlan(args.baseCidr, args.subnetCount))

SanitizeSegmentCall ==
    /\ call = "sanitizeSegment"
    /\ Finish(Return(sanitizeSegment(args.value)))

BuildNameCall ==
    /\ call = "buildName"
    /\ Finish(Return(buildName(args.base, args.suffix, args.maxLength)))

\* Two calls of buildName that differ in the base only, as the constructor's
\* calls for two services would; the result is the pair of names.
BuildNamePairCall ==
    /\ call = "buildName, buildName"
    /\ Finish(Return(<<buildName(args.base, args.suffix, args.maxLength),
                       buildName(args.other, args.suffix, args.maxLength)>>))

IntToIpCall ==
    /\ call = "intToIp"
    /\ Finish(Return(intToIp(args.value)))

\* A caller writes the text intToIp returned, "/" and a prefix, and hands it
\* to parseCidr, as deriveSubnetCidr's callers do with the blocks it returns.
ParseCidrOfResult ==
    /\ pc = "done"
    /\ call = "intToIp"
    /\ pc' = "ready"
    /\ call' = "parseCidr(intToIp)"
    /\ args' = [cidr |-> result.value \o "/" \o ToDecimal(args.prefix),
                value |-> args.value, prefix |-> args.prefix]
    /\ result' = NotCalled
    /\ UNCHANGED resources

ParseCidrAgainCall ==
    /\ call = "parseCidr(intToIp)"
    /\ Finish(parseCidr(args.cidr))

\* A caller hands the name buildName returned back to buildName as the base,
\* with an empty suffix and the same maxLength.
BuildNameOfResult ==
    /\ pc = "done"
    /\ call = "buildName"
    /\ pc' = "ready"
    /\ call' = "buildName(buildName)"
    /\ args' = [base |-> result.value, suffix |-> "", maxLength |-> args.maxLength]
    /\ result' = NotCalled
    /\ UNCHANGED resources

BuildNameAgainCall ==
    /\ call = "buildName(buildName)"
    /\ Finish(Return(buildName(args.base, args.suffix, args.maxLength)))

\* A constructor call: the object or the error, and what was registered.
Construct(built) ==
    /\ pc = "ready"
    /\ pc' = "done"
    /\ result' = built.outcome
    /\ resources' = built.resources
    /\ UNCHANGED <<call, args>>

NetworkingConstructor ==
    /\ call = "new Networking"
    /\ Construct(Networking(args.name, args.args))

FckNatConstructor ==
    /\ call = "new FckNat"
    /\ Construct(FckNat(args.name, args.args))

\* Line 152: the callback of publicSubnetIds.apply runs, after the
\* constructor has returned; it calls privateSubnetIds.apply.
PublicSubnetIdsApply ==
    /\ call = "new FckNat"
    /\ pc = "done"
    /\ pc' = "public ids applied"
    /\ UNCHANGED <<call, args, result, resources>>

\* Lines 153-220: the callback of privateSubnetIds.apply runs: the loop
\* fills this.instances and this.routeTables.
PrivateSubnetIdsApply ==
    /\ call = "new FckNat"
    /\ pc = "public ids applied"
    /\ pc' = "private ids applied"
    /\ LET zones == fckNatZones(args.args, args.args.publicSubnetIds,
                                args.args.privateSubnetIds, 0)
       IN /\ resources' = resources \o zones
          /\ result' = [result EXCEPT
                 !.value.instances =
                     SelectSeq(zones, LAMBDA r : r.type = "aws.ec2.Instance"),
                 !.value.routeTables =
                     SelectSeq(zones, LAMBDA r : r.type = "aws.ec2.RouteTable")]
    /\ UNCHANGED <<call, args>>

\* fckNat.getCostSavings(), directly or through Networking.getNatCostInfo
\* (networking/index.ts lines 344-352), at any time after construction; what
\* the caller was told is kept with the position it was asked at.
GetCostSavingsCall ==
    /\ call = "new FckNat"
    /\ pc \in {"done", "public ids applied", "private ids applied"}
    /\ result.asked = <<>>
    /\ result' = [result EXCEPT
                     !.asked = <<[at |-> pc, told |-> getCostSavings(result.value)]>>]
    /\ UNCHANGED <<call, args, pc, resources>>

DerivePlaceholderSeedConfigCall ==
    /\ call = "derivePlaceholderSeedConfig"
    /\ Finish(Return(derivePlaceholderSeedConfig(args)))

NextCidr ==
    \/ ParseCidrCall
    \/ DetermineSubnetPrefixCall
    \/ DeriveSubnetCidrCall
    \/ SubnetPlanCall

NextEdge ==
    \/ DeriveSubnetCidrCall
    \/ DetermineSubnetPrefixCall

NextName ==
    \/ SanitizeSegmentCall
    \/ BuildNameCall

NextPair == BuildNamePairCall

NextRoundTrip ==
    \/ IntToIpCall
    \/ ParseCidrOfResult
    \/ ParseCidrAgainCall

NextAgain ==
    \/ BuildNameCall
    \/ BuildNameOfResult
    \/ BuildNameAgainCall

GitHubActionsRoleConstructor ==
    /\ call = "new GitHubActionsRole"
    /\ Construct(GitHubActionsRole(args.name, args.args, args.oidcArn))

DatabaseConstructor ==
    /\ call = "new Database"
    /\ Construct(Database(args.name, args.args))

LambdaFunctionConstructor ==
    /\ call = "new LambdaFunction"
    /\ Construct(LambdaFunction(args.name, args.args))

AppRunnerServiceConstructor ==
    /\ call = "new AppRunnerService"
    /\ Construct(AppRunnerService(args.name, args.args))

NextInfra ==
    \/ NetworkingConstructor
    \/ GitHubActionsRoleConstructor
    \/ DatabaseConstructor
    \/ LambdaFunctionConstructor
    \/ AppRunnerServiceConstructor

NextEcr == DerivePlaceholderSeedConfigCall

NextFckNat ==
    \/ FckNatConstructor
    \/ PublicSubnetIdsApply
    \/ PrivateSubnetIdsApply
    \/ GetCostSavingsCall

Next == NextCidr \/ NextRoundTrip \/ NextName \/ NextPair \/ NextAgain \/ NextInfra \/ NextEcr
            \/ NextFckNat

SpecCidr == InitCidr /\ [][NextCidr]_vars

SpecEdge == InitEdge /\ [][NextEdge]_vars

SpecName == InitName /\ [][NextName]_vars

SpecPair == InitPair /\ [][NextPair]_vars

SpecAgain == InitAgain /\ [][NextAgain]_vars

SpecRoundTrip == InitRoundTrip /\ [][NextRoundTrip]_vars

SpecInfra == InitInfra /\ [][NextInfra]_vars

SpecEcr == InitEcr /\ [][NextEcr]_vars

SpecFckNat == InitFckNat /\ [][NextFckNat]_vars

Spec == Init /\ [][Next]_vars

(***************************************************************************)
(* Vocabulary of the properties.                                           *)
(***************************************************************************)
Done(name) == pc = "done" /\ call = name

\* w with its low `bits` bits cleared, limb by limb.
ClearLowBits(w, bits) ==
    IF bits >= 16 THEN <<w[1] - (w[1] % (2 ^ (bits - 16))), 0>>
    ELSE <<w[1], w[2] - (w[2] % (2 ^ bits))>>

\* The address range a CIDR text denotes: first address and one past the last.
RangeFirst(cidr) ==
    LET block == parseCidr(cidr).value
    IN ClearLowBits(block.baseIp, 32 - block.prefix)

RangeEnd(cidr) == WAdd(RangeFirst(cidr), WPow2(32 - parseCidr(cidr).value.prefix))

\* The dotted-quad text of an address, read off the limbs.
DottedQuad(w) ==
    ToDecimal((w[1] \div 256) % 256) \o "." \o ToDecimal(w[1] % 256) \o "."
        \o ToDecimal(w[2] \div 256) \o "." \o ToDecimal(w[2] % 256)

\* ceil(log2(n)) as the number of powers of two below n.
BitsFor(n) == Cardinality({k \in 0..30 : 2 ^ k < n})

BasePrefixOf(cidr) == parseCidr(cidr).value.prefix

LastChar(text) == CharAt(text, Len(text))

\* C1: whenever determineSubnetPrefix returns a prefix for the base prefix and
\* the subnet count, every deriveSubnetCidr call for the indices
\* 0..subnetCount-1 returns a block of that prefix, each block lies inside the
\* base CIDR's range, and no two blocks overlap.
C1_PlanDisjointInsideBase ==
    Done("subnetPlan")
    => LET sized == determineSubnetPrefix(BasePrefixOf(args.baseCidr), args.subnetCount)
           blocks == result.value
           \* the ranges <<first, end>> of the blocks
           ranges == {<<RangeFirst(blocks[i]), RangeEnd(blocks[i])>> :
                         i \in 1..Len(blocks)}
           parent == <<RangeFirst(args.baseCidr), RangeEnd(args.baseCidr)>>
       IN ~sized.threw
          => /\ ~result.threw
             /\ Len(blocks) = args.subnetCount
             /\ \A i \in 1..Len(blocks) : BasePrefixOf(blocks[i]) = sized.value
             /\ Cardinality(ranges) = args.subnetCount
             /\ \A r \in ranges : WGeq(r[1], parent[1]) /\ WGeq(parent[2], r[2])
             /\ \A r, q \in ranges : r # q => (WGeq(q[1], r[2]) \/ WGeq(r[1], q[2]))

\* A layout of 17 subnets was derived from a base whose address has host bits.
C1_Witness ==
    /\ Done("subnetPlan")
    /\ args.baseCidr = "192.168.37.77/20"
    /\ args.subnetCount = 17
    /\ ~result.threw
    /\ Len(result.value) = 17

\* C2: a prefix p returned by determineSubnetPrefix(basePrefix, n) has room
\* for the n subnets: p >= basePrefix and 2^(p - basePrefix) >= n.
C2_PrefixHasCapacity ==
    (Done("determineSubnetPrefix") /\ ~result.threw)
    => /\ result.value >= args.basePrefix
       /\ 2 ^ (result.value - args.basePrefix) >= args.subnetCount

\* Sixteen subnets of a /24: the preferred /26 had to be raised to /28.
C2_Witness ==
    /\ Done("determineSubnetPrefix")
    /\ args.basePrefix = 24
    /\ args.subnetCount = 16
    /\ result = Return(28)

\* C3: for basePrefix <= subnetPrefix <= 32 and an index below
\* 2^(subnetPrefix - basePrefix), deriveSubnetCidr returns the dotted quad of
\* (base with its host bits cleared) + index * 2^(32 - subnetPrefix), then "/"
\* and the subnet prefix; 10.2.0.0/24 at /26 gives 10.2.0.0/26 and 10.2.0.64/26.
C3_DerivedBlockText ==
    Done("deriveSubnetCidr")
    => LET base == parseCidr(args.baseCidr).value
           expected == WAdd(ClearLowBits(base.baseIp, 32 - base.prefix),
                            WTimes(args.subnetIndex, WPow2(32 - args.subnetPrefix)))
       IN /\ (/\ args.subnetPrefix >= base.prefix
              /\ WLess(args.subnetIndex, WPow2(args.subnetPrefix - base.prefix)))
             => result = Return(DottedQuad(expected) \o "/" \o ToDecimal(args.subnetPrefix))
          /\ (args.baseCidr = "10.2.0.0/24" /\ args.subnetPrefix = 26
                  /\ args.subnetIndex = Wide(0))
             => result = Return("10.2.0.0/26")
          /\ (args.baseCidr = "10.2.0.0/24" /\ args.subnetPrefix = 26
                  /\ args.subnetIndex = Wide(1))
             => result = Return("10.2.0.64/26")

\* The second /26 of 10.2.0.0/24 was derived.
C3_Witness ==
    /\ Done("deriveSubnetCidr")
    /\ args = [baseCidr |-> "10.2.0.0/24", subnetPrefix |-> 26, subnetIndex |-> Wide(1)]
    /\ result = Return("10.2.0.64/26")

\* C4: determineSubnetPrefix returns max(26, basePrefix, basePrefix +
\* ceil(log2(subnetCount))) when that is at most 28 and throws otherwise; a /24
\* gives /26 for 1..4 subnets, /27 for 5..8, /28 for 9..16, and a base prefix
\* of 29 or more always throws.
C4_SubnetPrefixRule ==
    Done("determineSubnetPrefix")
    => LET wanted == Max(26, Max(args.basePrefix,
                                 args.basePrefix + BitsFor(args.subnetCount)))
       IN /\ IF wanted <= 28 THEN result = Return(wanted) ELSE result.threw
          /\ (args.basePrefix = 24 /\ args.subnetCount \in 1..4) => result = Return(26)
          /\ (args.basePrefix = 24 /\ args.subnetCount \in 5..8) => result = Return(27)
          /\ (args.basePrefix = 24 /\ args.subnetCount \in 9..16) => result = Return(28)
          /\ args.basePrefix >= 29 => result.threw

\* Nine subnets of a /24 were sized, and seventeen were refused.
C4_Witness ==
    /\ Done("determineSubnetPrefix")
    /\ args.basePrefix = 24
    /\ \/ args.subnetCount = 9 /\ result = Return(28)
       \/ args.subnetCount = 17 /\ result.threw

\* C5: deriveSubnetCidr throws the prefix error when subnetPrefix <
\* basePrefix, whatever the index; otherwise it throws the capacity error when
\* subnetIndex >= 2^(subnetPrefix - basePrefix); a call that throws returns no
\* CIDR text.
C5_DeriveErrors ==
    Done("deriveSubnetCidr")
    => LET basePrefix == BasePrefixOf(args.baseCidr)
       IN /\ args.subnetPrefix < basePrefix
             => result = Throw("Subnet prefix cannot be smaller than VPC prefix")
          /\ (/\ args.subnetPrefix >= basePrefix
              /\ WGeq(args.subnetIndex, WPow2(args.subnetPrefix - basePrefix)))
             => result = Throw("CIDR does not have capacity for subnet index")
          /\ result.threw => "value" \notin DOMAIN result

\* A call with too small a prefix and an index of 3 threw the prefix error; a
\* call with the first index beyond the capacity threw the capacity error.
C5_Witness ==
    /\ Done("deriveSubnetCidr")
    /\ result.threw
    /\ \/ /\ args.subnetPrefix < BasePrefixOf(args.baseCidr)
          /\ args.subnetIndex = Wide(3)
       \/ /\ args.subnetPrefix > BasePrefixOf(args.baseCidr)
          /\ args.subnetIndex = WPow2(args.subnetPrefix - BasePrefixOf(args.baseCidr))

\* A text of the form A.B.C.D/N: two parts around one "/", four octets that
\* are non-empty runs of digits worth 0..255, a prefix that is a non-empty run
\* of digits worth 0..32.
IsDecimalIn(text, most) == text # "" /\ AllDigits(text) /\ DecimalValue(text) <= most

WellFormedCidr(text) ==
    LET parts == Split(text, "/")
        octets == Split(parts[1], ".")
    IN /\ Len(parts) = 2
       /\ Len(octets) = 4
       /\ \A k \in 1..4 : IsDecimalIn(octets[k], 255)
       /\ IsDecimalIn(parts[2], 32)

\* C6: parseCidr returns a value only for a text of the form A.B.C.D/N with
\* four octets in 0..255 and a prefix in 0..32, and throws for every other
\* text (an empty octet, an octet such as 999, a missing prefix).
C6_ParseOnlyWellFormed ==
    Done("parseCidr")
    => /\ ~result.threw => WellFormedCidr(args.cidr)
       /\ args.cidr = "999.1.1.1/24" => result.threw

\* C7: for maxLength >= 4 the name buildName returns has at least 4 and at
\* most maxLength characters (32 for the auto-scaling and VPC-connector names,
\* 40 for the service name).
C7_NameLengthBounds ==
    (Done("buildName") /\ args.maxLength >= 4)
    => /\ Len(result.value) >= 4
       /\ Len(result.value) <= args.maxLength

\* A base longer than the 32 characters allowed was fitted into them.
C7_Witness ==
    /\ Done("buildName")
    /\ args.maxLength = 32
    /\ Len(args.base) > 32
    /\ args.suffix = "autoscaling-prod"
    /\ Len(result.value) \in 5..32

\* C8 as stated: for every maxLength >= 1, below 4 included, the name is
\* never longer than maxLength.
C8_NeverLongerThanMaxLength ==
    (Done("buildName") /\ args.maxLength >= 1)
    => Len(result.value) <= args.maxLength

\* C8 as amended: for every maxLength >= 1 the name is never longer than the
\* larger of maxLength and the 4-character minimum; for maxLength below 4 it
\* is exactly 4 characters long.
C8_NeverLongerThanMaxOrMinimum ==
    (Done("buildName") /\ args.maxLength >= 1)
    => /\ Len(result.value) <= Max(args.maxLength, MIN_NAME_LENGTH)
       /\ args.maxLength < MIN_NAME_LENGTH => Len(result.value) = MIN_NAME_LENGTH

\* A name was built for a maxLength of 2 and padded to 4 characters.
C8_Witness ==
    /\ Done("buildName")
    /\ args.maxLength = 2
    /\ Len(result.value) = 4

\* C9: the name buildName returns is non-empty, starts with a letter or
\* digit, has only letters, digits, "-" and "_", and has no two adjacent
\* separators.
C9_NameCharset ==
    Done("buildName")
    => /\ result.value # ""
       /\ CharAt(result.value, 1) \in Alnum
       /\ \A i \in 1..Len(result.value) : CharAt(result.value, i) \in Alnum \cup Separators
       /\ \A i \in 1..(Len(result.value) - 1) :
             ~(CharAt(result.value, i) \in Separators
                   /\ CharAt(result.value, i + 1) \in Separators)

\* A name was built from a base that starts with a separator and holds an
\* invalid character next to a separator.
C9_Witness ==
    /\ Done("buildName")
    /\ Len(args.base) >= 2
    /\ CharAt(args.base, 1) \in Separators
    /\ \E i \in 1..(Len(args.base) - 1) :
          /\ CharAt(args.base, i) \notin Alnum \cup Separators
          /\ CharAt(args.base, i + 1) \in Separators
    /\ args.suffix # ""

\* C10: for maxLength >= 4 the name buildName returns does not end in "-" or
\* "_", and sanitizeSegment never returns a text that begins or ends with "-"
\* or "_".
C10_NoEdgeSeparators ==
    /\ (Done("buildName") /\ args.maxLength >= 4)
       => LastChar(result.value) \notin Separators
    /\ (Done("sanitizeSegment") /\ result.value # "")
       => /\ CharAt(result.value, 1) \notin Separators
          /\ LastChar(result.value) \notin Separators

\* The base as buildName shrinks it: sanitized, with a valid start.
SanitizedBase(base) ==
    ensureValidStart(IF sanitizeSegment(base) = "" THEN DEFAULT_BASE_SEGMENT
                     ELSE sanitizeSegment(base))

\* The length allotted to the base: all of maxLength without a suffix; with
\* one, what the suffix and the joining hyphen leave, raised to the 4-character
\* floor when the suffix can be shortened, and all of maxLength when the
\* suffix has to be dropped.
BaseBudget(suffix, maxLength) ==
    LET left == maxLength - Len(sanitizeSegment(suffix)) - 1
    IN IF sanitizeSegment(suffix) = "" THEN maxLength
       ELSE IF left >= 4 THEN left
       ELSE IF maxLength > 5 THEN 4
       ELSE maxLength

HexChars == {CharAt(HexDigits, i) : i \in 1..Len(HexDigits)}

AllHex(text) == \A i \in 1..Len(text) : CharAt(text, i) \in HexChars

\* The number of leading characters two texts share.
CommonPrefixLength(a, b) ==
    CHOOSE n \in 0..Min(Len(a), Len(b)) :
        /\ SubSeq(a, 1, n) = SubSeq(b, 1, n)
        /\ (n = Min(Len(a), Len(b)) \/ CharAt(a, n + 1) # CharAt(b, n + 1))

\* A name without the "-suffix" it ends in, if it does.
BasePart(name, suffix) ==
    LET tail == "-" \o sanitizeSegment(suffix)
    IN IF sanitizeSegment(suffix) # "" /\ Len(name) > Len(tail)
              /\ SliceFrom(name, 0 - Len(tail)) = tail
           THEN Slice(name, 0, Len(name) - Len(tail))
       ELSE name

\* The text after the last hyphen of a text that has one.
AfterLastHyphen(text) ==
    LET hyphens == {i \in 1..Len(text) : CharAt(text, i) = "-"}
        last == IF hyphens = {} THEN 0 ELSE CHOOSE i \in hyphens : \A j \in hyphens : j <= i
    IN SubSeq(text, last + 1, Len(text))

\* No two distinct texts among these have digests that begin alike.
DigestSeparates(texts) ==
    \A x, y \in texts : x # y => Slice(sha1Hex(x), 0, 2) # Slice(sha1Hex(y), 0, 2)

\* C12: when the digest does not collide, two distinct bases that share a
\* prefix longer than maxLength get different names from buildName with an
\* empty suffix.
C12_TruncatedNamesDiffer ==
    (/\ Done("buildName, buildName")
     /\ args.suffix = ""
     /\ args.base # args.other
     /\ CommonPrefixLength(args.base, args.other) > args.maxLength
     /\ DigestSeparates({args.base, args.other,
                         SanitizedBase(args.base), SanitizedBase(args.other)}))
    => result.value[1] # result.value[2]

\* C19: when buildName cuts the base and appends a hash, the hash is the
\* beginning (2 to 6 characters) of the digest of the base as it was passed
\* in, and two bases that differ only in characters that sanitizing replaces
\* by the same character get different hashes.
C19_HashOfOriginalBase ==
    Done("buildName, buildName")
    => LET budget == BaseBudget(args.suffix, args.maxLength)
           first == AfterLastHyphen(BasePart(result.value[1], args.suffix))
           second == AfterLastHyphen(BasePart(result.value[2], args.suffix))
       IN (/\ budget > 4
           /\ Len(SanitizedBase(args.base)) > budget
           /\ Len(SanitizedBase(args.other)) > budget)
          => /\ Len(first) \in 2..6
             /\ first = Slice(sha1Hex(args.base), 0, Len(first))
             /\ Len(second) \in 2..6
             /\ second = Slice(sha1Hex(args.other), 0, Len(second))
             /\ (/\ args.base # args.other
                 /\ ReplaceInvalid(args.base) = ReplaceInvalid(args.other))
                => first # second

\* C20: for maxLength >= 4, with or without a suffix, a sanitized base longer
\* than its budget appears in the name as one of its own prefixes, a hyphen
\* and 2 to 6 hash characters, at most budget characters in all; it is never
\* cut without a hash.
C20_CutBaseCarriesHash ==
    (Done("buildName") /\ args.maxLength >= 4)
    => LET whole == SanitizedBase(args.base)
           budget == BaseBudget(args.suffix, args.maxLength)
           name == result.value
       IN Len(whole) > budget
          => \E p \in 1..Len(whole), h \in 2..6 :
                /\ p + 1 + h <= budget
                /\ Len(name) >= p + 1 + h
                /\ SubSeq(name, 1, p) = SubSeq(whole, 1, p)
                /\ CharAt(name, p + 1) = "-"
                /\ AllHex(SubSeq(name, p + 2, p + 1 + h))
                /\ (Len(name) = p + 1 + h \/ CharAt(name, p + 2 + h) = "-")

\* C13: a Networking that was constructed has exactly one egress mechanism:
\* with useFckNat true it has fckNat and neither natGateway nor
\* privateRouteTable, otherwise it has natGateway and privateRouteTable and no
\* fckNat; and exactly one FckNat or NatGateway was registered.
C13_OneEgressMechanism ==
    (Done("new Networking") /\ ~result.threw)
    => LET this == result.value
           egress == OfType(resources, {"custom:networking:FckNat", "aws.ec2.NatGateway"})
       IN /\ Cardinality(egress) = 1
          /\ IF Has(args.args, "useFckNat") /\ args.args.useFckNat
                 THEN /\ Has(this, "fckNat")
                      /\ ~Has(this, "natGateway")
                      /\ ~Has(this, "privateRouteTable")
             ELSE /\ Has(this, "natGateway")
                  /\ Has(this, "privateRouteTable")
                  /\ ~Has(this, "fckNat")

\* As in networking.spec.ts: a /24 with two zones was built, useFckNat given.
C13_Witness ==
    /\ Done("new Networking")
    /\ ~result.threw
    /\ Has(args.args, "cidrBlock") /\ args.args.cidrBlock = "10.0.0.0/24"
    /\ Has(args.args, "availabilityZoneCount") /\ args.args.availabilityZoneCount = 2
    /\ Has(args.args, "useFckNat")
    /\ Len(result.value.privateSubnets) = 2

\* The text after the last occurrence of a character that occurs in a text.
AfterLast(text, c) ==
    LET at == {i \in 1..Len(text) : CharAt(text, i) = c}
    IN SubSeq(text, (CHOOSE i \in at : \A j \in at : j <= i) + 1, Len(text))

\* The last colon of a URI comes after its last slash.
ColonAfterSlash(uri) ==
    \E i \in 1..Len(uri) :
        /\ CharAt(uri, i) = ":"
        /\ \A j \in (i + 1)..Len(uri) : CharAt(uri, j) \notin {":", "/"}

\* A text without the spaces at its two ends.
WithoutOuterSpaces(text) ==
    LET inner == {<<i, j>> \in (1..(Len(text) + 1)) \X (0..Len(text)) :
                     /\ \A k \in 1..(i - 1) : CharAt(text, k) = " "
                     /\ \A k \in (j + 1)..Len(text) : CharAt(text, k) = " "
                     /\ (i > j \/ (CharAt(text, i) # " " /\ CharAt(text, j) # " "))}
        span == CHOOSE span \in inner : \A other \in inner : span[2] - span[1] >= other[2] - other[1]
    IN SubSeq(text, span[1], span[2])

\* What C14 says of every result: enabled exactly when there is a tag and
\* exactly when there is no warning; the absent or empty URI; the URI with "@".
SeedConfigShape ==
    LET config == result.value
    IN /\ config.enabled <=> Has(config, "tag")
       /\ config.enabled <=> ~Has(config, "warning")
       /\ (~Has(args, "imageUri") \/ args.imageUri = "")
          => config = [enabled |-> TRUE, tag |-> "latest"]
       /\ (Has(args, "imageUri") /\ Includes(args.imageUri, "@"))
          => (~config.enabled /\ ~Has(config, "tag") /\ Has(config, "warning"))

\* C14 as stated: besides the shape, a URI without "@" gives enabled and as
\* tag the text after the last ":" when that colon comes after the last "/"
\* and the text is not empty, and "latest" otherwise.
C14_SeedConfigTagIsTextAfterColon ==
    Done("derivePlaceholderSeedConfig")
    => /\ SeedConfigShape
       /\ (Has(args, "imageUri") /\ args.imageUri # "" /\ ~Includes(args.imageUri, "@"))
          => /\ result.value.enabled
             /\ result.value.tag =
                    IF ColonAfterSlash(args.imageUri) /\ AfterLast(args.imageUri, ":") # ""
                        THEN AfterLast(args.imageUri, ":")
                    ELSE "latest"

\* C14 as amended: the tag is the text after the last ":" without the white
\* space at its ends, when that colon comes after the last "/" and something
\* is left of the text, and "latest" otherwise.
C14_SeedConfigTagIsTrimmed ==
    Done("derivePlaceholderSeedConfig")
    => /\ SeedConfigShape
       /\ (Has(args, "imageUri") /\ args.imageUri # "" /\ ~Includes(args.imageUri, "@"))
          => /\ result.value.enabled
             /\ result.value.tag =
                    IF ColonAfterSlash(args.imageUri)
                           /\ WithoutOuterSpaces(AfterLast(args.imageUri, ":")) # ""
                        THEN WithoutOuterSpaces(AfterLast(args.imageUri, ":"))
                    ELSE "latest"

\* A URI whose tag is written after a space gave the tag without the space.
C14_Witness ==
    /\ Done("derivePlaceholderSeedConfig")
    /\ Has(args, "imageUri")
    /\ args.imageUri = "a: a"
    /\ result.value = [enabled |-> TRUE, tag |-> "a"]

\* The subjects a trust policy is to name: one per branch, then one per
\* environment.
BranchSubject(input, branch) ==
    "repo:" \o input.githubOrg \o "/" \o input.githubRepo \o ":ref:refs/heads/" \o branch

EnvironmentSubject(input, environment) ==
    "repo:" \o input.githubOrg \o "/" \o input.githubRepo \o ":environment:" \o environment

AllSubjects(input) ==
    [i \in 1..Len(OrEmpty(input, "githubBranches")) |->
        BranchSubject(input, input.githubBranches[i])]
    \o [i \in 1..Len(OrEmpty(input, "githubEnvironments")) |->
           EnvironmentSubject(input, input.githubEnvironments[i])]

\* The position at which an element first occurs in a list.
FirstAt(list, e) == CHOOSE i \in 1..Len(list) : list[i] = e /\ \A j \in 1..(i - 1) : list[j] # e

\* list is all of the elements of whole, each once, in the order in which
\* they first occur in whole.
IsDuplicateFree(list, whole) ==
    /\ {list[i] : i \in 1..Len(list)} = {whole[i] : i \in 1..Len(whole)}
    /\ \A i, j \in 1..Len(list) :
          i < j => FirstAt(whole, list[i]) < FirstAt(whole, list[j])

\* C15: without a branch and without an environment (both lists absent or
\* empty) the GitHubActionsRole constructor throws and has declared no
\* resource; otherwise the "sub" condition of the role's trust policy is the
\* duplicate-free list of the branch subjects followed by the environment
\* subjects.
C15_SubjectsRequiredAndListed ==
    Done("new GitHubActionsRole")
    => LET input == args.args
           none == /\ ~NonEmptyList(input, "githubBranches")
                   /\ ~NonEmptyList(input, "githubEnvironments")
       IN /\ none => /\ result.threw
                      /\ OfType(resources, {"aws.iam.OpenIdConnectProvider", "aws.iam.Role"}) = {}
                      /\ Len(resources) = 1
          /\ (~none /\ ~result.threw)
             => LET policy == result.value.role.inputs.assumeRolePolicy
                    sub == policy.StringLike["token.actions.githubusercontent.com:sub"]
                IN IsDuplicateFree(sub, AllSubjects(input))

\* A role was built for the branch main given twice and the environment dev.
C15_Witness ==
    /\ Done("new GitHubActionsRole")
    /\ ~result.threw
    /\ Has(args.args, "githubBranches") /\ args.args.githubBranches = <<"main", "main">>
    /\ Has(args.args, "githubEnvironments") /\ args.args.githubEnvironments = <<"dev">>
    /\ Len(result.value.role.inputs.assumeRolePolicy.StringLike[
               "token.actions.githubusercontent.com:sub"]) = 2

\* An ingress rule for TCP 5432 that names the one security group and no
\* CIDR block.
IsPostgresRuleFor(rule, group) ==
    /\ rule.protocol = "tcp"
    /\ rule.fromPort = 5432
    /\ rule.toPort = 5432
    /\ rule.securityGroups = <<group>>
    /\ ~Has(rule, "cidrBlocks")
    /\ ~Has(rule, "ipv6CidrBlocks")

\* C16: the security group of a Database has one ingress rule per entry of
\* a non-empty allowedSecurityGroupIds, in the same order, each for TCP 5432
\* and that one group, and one such rule for securityGroupId when the list is
\* absent or empty; no ingress rule has a CIDR block and the instance is not
\* publicly accessible.
C16_IngressPerAllowedGroup ==
    Done("new Database")
    => LET input == args.args
           ingress == result.value.securityGroup.inputs.ingress
       IN /\ ~result.threw
          /\ IF NonEmptyList(input, "allowedSecurityGroupIds")
                 THEN /\ Len(ingress) = Len(input.allowedSecurityGroupIds)
                      /\ \A i \in 1..Len(ingress) :
                            IsPostgresRuleFor(ingress[i], input.allowedSecurityGroupIds[i])
             ELSE /\ Len(ingress) = 1
                  /\ IsPostgresRuleFor(ingress[1], input.securityGroupId)
          /\ result.value.instance.inputs.publiclyAccessible = FALSE
          /\ \A i \in OfType(resources, {"aws.rds.Instance"}) :
                resources[i].inputs.publiclyAccessible = FALSE

\* As in database.spec.ts: a database was built for two allowed groups.
C16_Witness ==
    /\ Done("new Database")
    /\ Has(args.args, "allowedSecurityGroupIds")
    /\ args.args.allowedSecurityGroupIds = <<"sg-a", "sg-b">>
    /\ Len(result.value.securityGroup.inputs.ingress) = 2

\* A LambdaFunction has a VPC configuration exactly when it was given a
\* subnet and a security group.
VpcConfigWhenBothGiven ==
    Has(result.value.function.inputs, "vpcConfig")
        <=> (NonEmptyList(args.args, "subnetIds") /\ NonEmptyList(args.args, "securityGroupIds"))

\* The environment of the function holds every pair of the map it was given.
HoldsEveryGivenPair ==
    LET given == OrEmpty(args.args, "environmentVariables")
        variables == result.value.function.inputs.environment.variables
    IN \A key \in DOMAIN given : Has(variables, key) /\ variables[key] = given[key]

\* C18 as stated: the VPC configuration exactly when both lists are
\* non-empty and, for any environmentVariables map, every given pair and
\* NODE_ENV equal to args.environment.
C18_EnvironmentHasNodeEnv ==
    Done("new LambdaFunction")
    => /\ VpcConfigWhenBothGiven
       /\ HoldsEveryGivenPair
       /\ result.value.function.inputs.environment.variables["NODE_ENV"]
              = args.args.environment

\* C18 as amended: NODE_ENV is args.environment unless the given map has a
\* pair for NODE_ENV, which is then the one the environment holds.
C18_EnvironmentHasNodeEnvUnlessGiven ==
    Done("new LambdaFunction")
    => /\ VpcConfigWhenBothGiven
       /\ HoldsEveryGivenPair
       /\ Has(result.value.function.inputs.environment.variables, "NODE_ENV")
       /\ ~Has(OrEmpty(args.args, "environmentVariables"), "NODE_ENV")
          => result.value.function.inputs.environment.variables["NODE_ENV"]
                 = args.args.environment

\* A function was built in an environment other than the NODE_ENV its map
\* gives, with a subnet and a security group.
C18_Witness ==
    /\ Done("new LambdaFunction")
    /\ Has(args.args, "environmentVariables")
    /\ Has(args.args.environmentVariables, "NODE_ENV")
    /\ args.args.environmentVariables["NODE_ENV"] # args.args.environment
    /\ Has(result.value.function.inputs, "vpcConfig")
    /\ result.value.function.inputs.environment.variables["NODE_ENV"]
           = args.args.environmentVariables["NODE_ENV"]

\* The arguments carry a subnet and a security group for the VPC connector.
ConnectorListsGiven ==
    NonEmptyList(args.args, "vpcSubnetIds") /\ NonEmptyList(args.args, "vpcSecurityGroupIds")

\* The egress type of the service that was built.
EgressType == result.value.service.inputs.networkConfiguration.egressConfiguration.egressType

\* C17 as stated: construction completes, with or without an ecrImageUri;
\* with both lists non-empty there is a VPC connector, egress "VPC" and
\* public ingress, and otherwise no connector and egress "DEFAULT".
C17_ConstructionCompletesWithConnector ==
    Done("new AppRunnerService")
    => /\ ~result.threw
       /\ ConnectorListsGiven
          => /\ Has(result.value, "vpcConnector")
             /\ OfType(resources, {"aws.apprunner.VpcConnector"}) # {}
             /\ EgressType = "VPC"
             /\ result.value.service.inputs.networkConfiguration
                    .ingressConfiguration.isPubliclyAccessible
       /\ ~ConnectorListsGiven
          => /\ ~Has(result.value, "vpcConnector")
             /\ OfType(resources, {"aws.apprunner.VpcConnector"}) = {}
             /\ EgressType = "DEFAULT"

EndsWith(text, tail) == Len(text) >= Len(tail) /\ SliceFrom(text, 0 - Len(tail)) = tail

\* What the budget leaves of the sanitized suffix: all of it when the base
\* keeps 4 characters or more beside it, its last maxLength - 5 characters
\* when maxLength is 6 or more, nothing otherwise.
KeptSuffix(suffix, maxLength) ==
    LET s == sanitizeSegment(suffix)
    IN IF maxLength - Len(s) - 1 >= 4 THEN s
       ELSE IF maxLength >= 6 THEN SliceFrom(s, 0 - (maxLength - 5))
       ELSE ""

\* The kept suffix without the separators it begins with, which the joining
\* hyphen absorbs.
JoinedSuffix(suffix, maxLength) ==
    LET kept == KeptSuffix(suffix, maxLength)
    IN SubSeq(kept, LeadingRun(kept, Separators) + 1, Len(kept))

\* The name ends with the tail, or is a 4-character name that ends with the
\* tail and the zeros that pad it.
EndsWithPadded(name, tail) ==
    \/ EndsWith(name, tail)
    \/ /\ Len(name) = MIN_NAME_LENGTH
       /\ \E zeros \in {"0", "00"} : EndsWith(name, tail \o zeros)

\* C21 as stated: with a non-empty sanitized suffix s, the name ends with a
\* hyphen and s when maxLength - len(s) - 1 >= 4; otherwise, when
\* maxLength >= 6, the base has at most 4 characters and the name ends with
\* a hyphen and a tail of s of at most maxLength - 5 characters; otherwise the
\* suffix is dropped and the name is that of the base alone.
C21_SuffixBudget ==
    (Done("buildName") /\ sanitizeSegment(args.suffix) # "")
    => LET s == sanitizeSegment(args.suffix)
           left == args.maxLength - Len(s) - 1
           name == result.value
       IN /\ left >= 4 => EndsWith(name, "-" \o s)
          /\ (left < 4 /\ args.maxLength >= 6)
             => \E k \in 1..Min(Len(s), args.maxLength - 5) :
                   /\ EndsWith(name, "-" \o SliceFrom(s, 0 - k))
                   /\ Len(name) - k - 1 <= 4
          /\ (left < 4 /\ args.maxLength <= 5)
             => name = buildName(args.base, "", args.maxLength)

\* C21 as amended: the name ends with a hyphen and the kept suffix less its
\* leading separators, followed only by the zeros that pad a name shorter
\* than 4 characters; when the suffix was shortened the rest of the name has
\* at most 4 characters; with maxLength <= 5 and no room the suffix is
\* dropped.
C21_SuffixBudgetAfterJoin ==
    (Done("buildName") /\ sanitizeSegment(args.suffix) # "")
    => LET s == sanitizeSegment(args.suffix)
           left == args.maxLength - Len(s) - 1
           joined == JoinedSuffix(args.suffix, args.maxLength)
           name == result.value
       IN /\ ((left >= 4 \/ args.maxLength >= 6) /\ joined # "")
             => EndsWithPadded(name, "-" \o joined)
          /\ (left < 4 /\ args.maxLength >= 6 /\ joined # "")
             => /\ Len(joined) <= args.maxLength - 5
                /\ EndsWith(s, joined)
                /\ Len(name) - Len(joined) - 1 <= 4
          /\ (left < 4 /\ args.maxLength <= 5)
             => name = buildName(args.base, "", args.maxLength)

\* A suffix was cut to a tail that begins with a separator, and the name
\* ends with the rest of that tail.
C21_Witness ==
    /\ Done("buildName")
    /\ args.suffix = "s_t-uvw"
    /\ args.maxLength = 9
    /\ KeptSuffix(args.suffix, args.maxLength) = "-uvw"
    /\ EndsWith(result.value, "-uvw")
    /\ Len(result.value) = 8

\* The block a returned text denotes lies inside the base block and has a
\* prefix from the base prefix to 32.
IsBlockInside(text, baseCidr) ==
    /\ ~parseCidr(text).threw
    /\ parseCidr(text).value.prefix >= BasePrefixOf(baseCidr)
    /\ parseCidr(text).value.prefix <= 32
    /\ WGeq(RangeFirst(text), RangeFirst(baseCidr))
    /\ WGeq(RangeEnd(baseCidr), RangeEnd(text))

\* C22: for every valid baseCidr, every integer subnetPrefix and every
\* integer subnetIndex, negative ones included, deriveSubnetCidr throws or
\* returns a block inside the base block with a prefix from the base prefix
\* to 32; determineSubnetPrefix throws for every subnetCount below 1.
C22_InvalidArgumentsThrow ==
    /\ Done("deriveSubnetCidr")
       => (result.threw \/ IsBlockInside(result.value, args.baseCidr))
    /\ (Done("determineSubnetPrefix") /\ args.subnetCount < 1) => result.threw

HasNoAlnum(text) == \A i \in 1..Len(text) : CharAt(text, i) \notin Alnum

\* C23: a base without any letter or digit (empty, or separators and invalid
\* characters only) is replaced by one fixed token, so every such base gives
\* the name the empty base gives for the same suffix and maxLength.
C23_OneFallbackToken ==
    (Done("buildName") /\ HasNoAlnum(args.base))
    => result.value = buildName("", args.suffix, args.maxLength)

\* The name as it stands before the final length enforcement: the base and
\* the suffix the budget leaves, joined and sanitized again.
Joined(base, suffix, maxLength) ==
    LET budget == allocateBudget(SanitizedBase(base), sanitizeSegment(suffix), maxLength)
    IN joinSegments(budget.normalizedBase, budget.normalizedSuffix)

JoinedName == Joined(args.base, args.suffix, args.maxLength)

\* C24 as stated: the final length enforcement is reachable, that is, among
\* the arguments buildName is called with there are a base, a suffix and a
\* maxLength of 4 or more for which the joined and re-sanitized name is
\* longer than maxLength.
C24_TruncationReached ==
    (call = "buildName") =>
        \E input \in BuildNameArgs :
            /\ input.maxLength >= 4
            /\ Len(Joined(input.base, input.suffix, input.maxLength)) > input.maxLength

\* C24 as amended: with a maxLength of 4 or more the joined and re-sanitized
\* name is never longer than maxLength, so the final length enforcement
\* changes nothing and the name returned is the joined name, padded.
C24_TruncationUnreachable ==
    (Done("buildName") /\ args.maxLength >= 4)
    => /\ Len(JoinedName) <= args.maxLength
       /\ result.value = enforceMinLength(JoinedName)

\* A base and a suffix that had both to be cut were joined into a name of
\* exactly maxLength characters.
C24_Witness ==
    /\ Done("buildName")
    /\ args.maxLength >= 6
    /\ Len(SanitizedBase(args.base)) > 4
    /\ Len(sanitizeSegment(args.suffix)) > args.maxLength - 5
    /\ Len(JoinedName) = args.maxLength
    /\ result.value = JoinedName

\* What the Networking constructor reads from its arguments: the base CIDR
\* and the number of availability zones, with their defaults.
BaseCidrOf(input) ==
    IF Has(input, "cidrBlock") /\ input.cidrBlock # "" THEN input.cidrBlock
    ELSE DEFAULT_VPC_CIDR

AzCountOf(input) ==
    IF Has(input, "availabilityZoneCount") /\ input.availabilityZoneCount # 0
        THEN input.availabilityZoneCount
    ELSE 2

\* The constructor got past determineSubnetPrefix: the zone count is at least
\* 1, the base CIDR was parsed and a subnet prefix was returned.
PastSizing(input) ==
    /\ AzCountOf(input) >= 1
    /\ ~parseCidr(BaseCidrOf(input)).threw
    /\ ~determineSubnetPrefix(BasePrefixOf(BaseCidrOf(input)), 2 * AzCountOf(input)).threw

\* The CIDR blocks of the subnets a construction registered, public first.
SubnetBlocks ==
    LET subnets == SelectSeq(resources, LAMBDA r : r.type = "aws.ec2.Subnet")
    IN [i \in 1..Len(subnets) |-> subnets[i].inputs.cidrBlock]

BlocksDisjoint(a, b) == WGeq(RangeFirst(b), RangeEnd(a)) \/ WGeq(RangeFirst(a), RangeEnd(b))

\* C25: whenever the Networking constructor gets past determineSubnetPrefix
\* with azCount >= 1, no later deriveSubnetCidr call throws: the construction
\* completes with azCount public and azCount private subnets, whose blocks
\* are those of the indices 0..2*azCount-1 and are pairwise disjoint.
C25_DeriveNeverThrowsAfterSizing ==
    (Done("new Networking") /\ PastSizing(args.args))
    => LET azCount == AzCountOf(args.args)
           subnetPrefix == determineSubnetPrefix(BasePrefixOf(BaseCidrOf(args.args)),
                                                 2 * azCount).value
       IN /\ ~result.threw
          /\ Len(result.value.publicSubnets) = azCount
          /\ Len(result.value.privateSubnets) = azCount
          /\ Len(SubnetBlocks) = 2 * azCount
          /\ \A i \in 1..(2 * azCount) :
                 SubnetBlocks[i]
                     = deriveSubnetCidr(BaseCidrOf(args.args), subnetPrefix, Wide(i - 1)).value
          /\ \A i, j \in 1..(2 * azCount) :
                 i < j => BlocksDisjoint(SubnetBlocks[i], SubnetBlocks[j])

\* One zone in a base with non-zero host bits: two distinct blocks were
\* derived, the private one at index 1.
C25_Witness ==
    /\ Done("new Networking")
    /\ ~result.threw
    /\ Has(args.args, "cidrBlock") /\ args.args.cidrBlock = "10.0.0.77/27"
    /\ AzCountOf(args.args) = 1
    /\ Len(SubnetBlocks) = 2
    /\ SubnetBlocks[1] # SubnetBlocks[2]
    /\ result.value.privateSubnets[1].inputs.cidrBlock = SubnetBlocks[2]

\* The address a block's text is written with, host bits included.
WrittenAddress(cidr) == parseCidr(cidr).value.baseIp

\* C26: for every valid baseCidr with prefix b, non-zero host bits included,
\* and every p from b to 32, the blocks deriveSubnetCidr(baseCidr, p, i) for
\* i = 0..2^(p-b)-1 partition the parent network: each is a block of prefix p
\* written with its own first address, block 0 starts at the parent's network
\* address, block i+1 starts where block i ends, and the last block ends
\* where the parent ends.
C26_BlocksPartitionParent ==
    LET capacity == WPow2(args.subnetPrefix - BasePrefixOf(args.baseCidr))
        next == WAdd(args.subnetIndex, Wide(1))
    IN (/\ Done("deriveSubnetCidr")
        /\ args.subnetPrefix >= BasePrefixOf(args.baseCidr)
        /\ WLess(args.subnetIndex, capacity))
       => /\ ~result.threw
          /\ BasePrefixOf(result.value) = args.subnetPrefix
          /\ WrittenAddress(result.value) = RangeFirst(result.value)
          /\ (args.subnetIndex = Wide(0))
             => RangeFirst(result.value) = RangeFirst(args.baseCidr)
          /\ WLess(next, capacity)
             => RangeFirst(deriveSubnetCidr(args.baseCidr, args.subnetPrefix, next).value)
                    = RangeEnd(result.value)
          /\ (next = capacity) => RangeEnd(result.value) = RangeEnd(args.baseCidr)

\* The last of the eight /27 blocks of a /24 written with non-zero host bits
\* was derived, and it ends where the /24 ends.
C26_Witness ==
    /\ Done("deriveSubnetCidr")
    /\ args.baseCidr = "192.168.37.77/24"
    /\ args.subnetPrefix = 27
    /\ args.subnetIndex = Wide(7)
    /\ result = Return("192.168.37.224/27")
    /\ RangeEnd(result.value) = RangeEnd(args.baseCidr)

\* The sanitized base and the sanitized suffix of the call fit together /
\* the suffix is empty and the sanitized base fits alone.
FitsWithSuffix ==
    /\ sanitizeSegment(args.suffix) # ""
    /\ 4 <= Len(SanitizedBase(args.base)) + 1 + Len(sanitizeSegment(args.suffix))
    /\ Len(SanitizedBase(args.base)) + 1 + Len(sanitizeSegment(args.suffix)) <= args.maxLength

FitsAlone ==
    /\ sanitizeSegment(args.suffix) = ""
    /\ 4 <= Len(SanitizedBase(args.base))
    /\ Len(SanitizedBase(args.base)) <= args.maxLength

\* The suffix leaves the base the 4 characters of the minimum length.
LeavesBaseFloor == args.maxLength - Len(sanitizeSegment(args.suffix)) - 1 >= MIN_NAME_LENGTH

\* Neither the end of the sanitized base nor the start of the sanitized suffix
\* is a separator.
CleanJoint ==
    /\ LastChar(SanitizedBase(args.base)) \notin Separators
    /\ CharAt(sanitizeSegment(args.suffix), 1) \notin Separators

C28_IdempotentOnOutput ==
    (Done("buildName(buildName)") /\ args.maxLength >= 4) => result.value = args.base

\* A name that fills maxLength and carries a hash was handed back and
\* returned unchanged.
C28_Witness ==
    /\ Done("buildName(buildName)")
    /\ args.maxLength = 8
    /\ Len(args.base) = 8
    /\ CharAt(args.base, 2) = "-"
    /\ AllHex(SubSeq(args.base, 3, 8))
    /\ result.value = args.base

\* C29: parseCidr and intToIp are inverse on addresses: for a 32-bit value v
\* and a prefix p in 0..32, parseCidr of the text intToIp(v), "/" and p
\* returns baseIp = v and prefix = p; so the text "A.B.C.D/N" gives
\* A*2^24 + B*2^16 + C*2^8 + D, and 10.2.0.0/24 gives 10.2.0.0 and 24.
C29_ParseInvertsIntToIp ==
    Done("parseCidr(intToIp)")
    => /\ ~result.threw
       /\ result.value.baseIp = args.value
       /\ result.value.prefix = args.prefix
       /\ (args.cidr = "10.2.0.0/24")
          => result.value = [baseIp |-> <<10 * 256 + 2, 0>>, prefix |-> 24]

\* The largest address, written 255.255.255.255, was read back with the
\* prefix 32.
C29_Witness ==
    /\ Done("parseCidr(intToIp)")
    /\ args.cidr = "255.255.255.255/32"
    /\ args.value = <<65535, 65535>>
    /\ result = Return([baseIp |-> <<65535, 65535>>, prefix |-> 32])

\* C30: when the FckNat constructor has returned, instances and routeTables
\* each hold one entry per public subnet, instance i in public subnet i; the
\* outputs registered list as many instance and route table ids; and a
\* getCostSavings call made before any callback has run is computed from
\* that number of instances.
C30_ListsFilledAtReturn ==
    (Done("new FckNat") /\ ~result.threw)
    => LET azCount == Len(args.args.publicSubnetIds)
           this == result.value
       IN /\ Len(this.instances) = azCount
          /\ Len(this.routeTables) = azCount
          /\ \A i \in 1..Len(this.instances) :
                 this.instances[i].inputs.subnetId = args.args.publicSubnetIds[i]
          /\ Len(result.outputs.instanceIds) = azCount
          /\ Len(result.outputs.routeTableIds) = azCount
          /\ (result.asked # <<>>) => result.asked[1].told.fckNatCost = azCount * 38

====
